---- MODULE Spec2Model ----
(***************************************************************************)
(* FPLOptimizer (src/fpl_solver/solver.py): the multi-gameweek squad       *)
(* optimisation.  solve() builds one integer program over all gameweeks    *)
(* of the horizon, hands it to the CBC backend, and on status "Optimal"    *)
(* extracts the roster history; otherwise it resets the result state.      *)
(*                                                                         *)
(* A 0/1 decision variable indexed by player is modelled as the set of     *)
(* players whose variable is 1; an auxiliary per-player variable as a      *)
(* tuple indexed by player.  Costs and points are integers (tenths).       *)
(***************************************************************************)
EXTENDS Integers, FiniteSets, Sequences, Bags, TLC

(***************************************************************************)
(* Bounds of the model.                                                    *)
(***************************************************************************)
\* num_gameweeks passed to solve() ranges over 1..MaxGW
MaxGW == 2
\* candidate values of the unbounded integer variable transfer_hits[w]
MaxHits == 2
\* candidate values of the unbounded integer variable transfers_made[w]
MaxTransfers == 2
\* candidate values of the unbounded continuous bonus variables
MaxBonus == 12

(***************************************************************************)
(* Configuration (src/fpl_solver/config.py).                               *)
(***************************************************************************)
INITIAL_FREE_TRANSFERS == 1
MAX_FREE_TRANSFERS_SAVED == 5
POINTS_PER_HIT == 4

\* the size of a squad ("Total_Players_GW")
SquadSize == 15

(***************************************************************************)
(* The player_data frame handed to the constructor: 2 GK, 5 DEF, 5 MID     *)
(* and 5 FWD, so that squads differ in their forwards.  The index of the   *)
(* frame is 1..17.  expected_points_by_gw has the keys FirstGW..FirstGW+3. *)
(***************************************************************************)
FirstGW == 5

player_data ==
  << [position |-> "GK",  team |-> "A", cost |-> 50,  xp |-> <<4, 4, 4, 4>>],
     [position |-> "GK",  team |-> "B", cost |-> 50,  xp |-> <<3, 3, 3, 3>>],
     [position |-> "DEF", team |-> "A", cost |-> 50,  xp |-> <<6, 6, 6, 6>>],
     [position |-> "DEF", team |-> "B", cost |-> 50,  xp |-> <<5, 5, 5, 5>>],
     [position |-> "DEF", team |-> "C", cost |-> 50,  xp |-> <<4, 4, 4, 4>>],
     [position |-> "DEF", team |-> "D", cost |-> 50,  xp |-> <<2, 2, 2, 2>>],
     [position |-> "DEF", team |-> "E", cost |-> 50,  xp |-> <<1, 1, 1, 1>>],
     [position |-> "MID", team |-> "C", cost |-> 50,  xp |-> <<8, 8, 8, 8>>],
     [position |-> "MID", team |-> "D", cost |-> 50,  xp |-> <<7, 7, 7, 7>>],
     [position |-> "MID", team |-> "E", cost |-> 50,  xp |-> <<6, 6, 6, 6>>],
     [position |-> "MID", team |-> "F", cost |-> 50,  xp |-> <<5, 5, 5, 5>>],
     [position |-> "MID", team |-> "G", cost |-> 50,  xp |-> <<3, 3, 3, 3>>],
     [position |-> "FWD", team |-> "G", cost |-> 60,  xp |-> <<12, 12, 12, 12>>],
     [position |-> "FWD", team |-> "F", cost |-> 70,  xp |-> <<9, 0, 9, 0>>],
     [position |-> "FWD", team |-> "H", cost |-> 70,  xp |-> <<8, 0, 8, 0>>],
     [position |-> "FWD", team |-> "F", cost |-> 100, xp |-> <<0, 10, 0, 10>>],
     [position |-> "FWD", team |-> "H", cost |-> 100, xp |-> <<0, 9, 0, 9>>] >>

\* self.player_data.index
Players == 1..17

Teams == {player_data[i].team : i \in Players}

\* self.player_data["position"].unique()
Positions == {player_data[i].position : i \in Players}

\* the columns "id" and "name" of the player data: one value per player
player_id(i) == 100 + i
player_name(i) == <<"player", i>>

\* the number of gameweeks the expected_points_by_gw of a player covers
DataGameweeks == Len(player_data[1].xp)

\* required_columns
RequiredColumns == {"name", "team", "position", "cost", "expected_points_by_gw"}

\* self.player_data.loc[i, "expected_points_by_gw"][gw_actual]
player_xp(i, gw) == player_data[i].xp[gw - FirstGW + 1]

\* current_gameweek_number_start: the first key of the first player's dict
current_gameweek_number_start == FirstGW

\* gw_actual = current_gameweek_number_start + w
gw_actual(w) == current_gameweek_number_start + w

\* self.player_data[self.player_data["position"] == pos].index, within S
InPosition(S, pos) == {i \in S : player_data[i].position = pos}

\* lpSum(c[i] * var[i] for i in S) for non-negative integer coefficients c
lpSum(c, S) == BagCardinality([i \in {j \in S : c[j] > 0} |-> c[i]])

Count(S) == Cardinality(S)

Max(S) == CHOOSE x \in S : \A y \in S : y <= x

Min(S) == CHOOSE x \in S : \A y \in S : x <= y

\* the value of a 0/1 variable modelled as a set
In(i, S) == IF i \in S THEN 1 ELSE 0

(***************************************************************************)
(* Per-gameweek constraints (solve, "Apply constraints for each            *)
(* gameweek").  S is player_vars[.][w], X is starting_xi_vars[.][w] and    *)
(* C is captain_var[.][w].                                                 *)
(***************************************************************************)
\* 1. Total_Players_GW
TotalPlayers(S) == Count(S) = SquadSize

\* faulty position counts: four midfielders and four forwards
SquadPositions_FourForwards(S) ==
  /\ Count(InPosition(S, "GK")) = 2
  /\ Count(InPosition(S, "DEF")) = 5
  /\ Count(InPosition(S, "MID")) = 4
  /\ Count(InPosition(S, "FWD")) = 4

\* 2. Goalkeepers_Count, Defenders_Count, Midfielders_Count, Forwards_Count
SquadPositions(S) ==
  /\ Count(InPosition(S, "GK")) = 2
  /\ Count(InPosition(S, "DEF")) = 5
  /\ Count(InPosition(S, "MID")) = 5
  /\ Count(InPosition(S, "FWD")) = 3

\* a model that lacks "Total_Budget_GW"
TotalBudget_Ignored(S, budget) == budget \in Int

\* 3. Total_Budget_GW
TotalBudget(S, budget) ==
  lpSum([i \in Players |-> player_data[i].cost], S) <= budget

\* a faulty team limit that admits one player more
MaxPlayersFromTeam_OneMore(S, max_players_per_team) ==
  \A team \in {player_data[i].team : i \in S} :
    Count({i \in S : player_data[i].team = team}) <= max_players_per_team + 1

\* 4. Max_Players_from_<team>_GW
MaxPlayersFromTeam(S, max_players_per_team) ==
  \A team \in Teams :
    Count({i \in S : player_data[i].team = team}) <= max_players_per_team

\* a faulty line-up size: ten starters
StartingXI_Ten(S, X) ==
  /\ Count(X) = 10
  /\ X \subseteq S

\* 5.1 Total_Starting_XI_Players_GW and 5.2 StartingXI_in_Squad
StartingXI(S, X) ==
  /\ Count(X) = 11
  /\ X \subseteq S

\* 5.3 Starting_Goalkeepers_Count and the Min_Starting_*_Count constraints
StartingXIPositions(X) ==
  /\ Count(InPosition(X, "GK")) = 1
  /\ Count(InPosition(X, "DEF")) >= 3
  /\ Count(InPosition(X, "MID")) >= 2
  /\ Count(InPosition(X, "FWD")) >= 1

\* 6.1 One_Captain_GW and 6.2 Captain_in_StartingXI
Captain(X, C) ==
  /\ Count(C) = 1
  /\ C \subseteq X

(***************************************************************************)
(* The linearisation constraints of the chips, per player and gameweek.    *)
(***************************************************************************)
\* faulty bench constraints that lack IsBench_Squad and take every
\* player outside the starting XI for a bench player
IsBench_IgnoresSquad(s, x) ==
  {b \in {0, 1} : /\ b <= 1 - x
                  /\ b >= 1 - x}

\* IsBench_Squad, IsBench_NotStarter, IsBench_Logical: the values of
\* is_bench_player[i][w] allowed for squad value s and starter value x
IsBench(s, x) ==
  {b \in {0, 1} : /\ b <= s
                  /\ b <= 1 - x
                  /\ b >= s + (1 - x) - 1}

\* faulty bonus constraints that grant the bonus to every player, whatever
\* the indicator, when the chip is played
BonusContr_IgnoresIndicator(v, ind, act) ==
  {y \in 0..MaxBonus : /\ y <= v * act
                       /\ y >= v * act
                       /\ y >= 0}

\* BenchBoost_Contr_1..4 and TripleCaptain_Contr_1..4: the values of the
\* bonus variable allowed for points v, indicator ind and chip flag act
BonusContr(v, ind, act) ==
  {y \in 0..MaxBonus : /\ y <= v * ind
                       /\ y <= v * act
                       /\ y >= v * (ind + act - 1)
                       /\ y >= 0}

(***************************************************************************)
(* The objective, gameweek by gameweek: base points of the starting XI,    *)
(* the captain's additional share, and the two chip bonus sums.            *)
(***************************************************************************)
xp_gw(w) == [i \in Players |-> player_xp(i, gw_actual(w))]

\* base_points_expression_gw + captain_points_bonus_gw
LineupPoints(w, X, C) == lpSum(xp_gw(w), X) + lpSum(xp_gw(w), C)

\* total_bench_boost_points_gw or total_triple_captain_bonus_points_gw for a
\* tuple of bonus values indexed by player
BonusPoints(pts) == lpSum(pts, Players)

(***************************************************************************)
(* The CBC backend.  What it returns for a model is an assignment that     *)
(* satisfies every constraint and maximises the objective.  The search is  *)
(* organised by gameweek: the objective is a sum over gameweeks, and the   *)
(* gameweeks are coupled only through the squads (transfers), the chip     *)
(* totals and the transfer ledger.                                         *)
(***************************************************************************)
Weeks(num_gameweeks) == 0..(num_gameweeks - 1)

\* ---- the arguments of solve ----

Budgets == {700, 830, 1000}
TeamCaps == {2, 3}
ChipAllowanceInputs ==
  {[bench_boost |-> 0, triple_captain |-> 0],
   [triple_captain |-> 1]}

SolveArgs ==
  {[budget |-> tb, max_players_per_team |-> tk, chip_allowances |-> tca,
    num_gameweeks |-> tn] :
     tb \in Budgets, tk \in TeamCaps, tca \in ChipAllowanceInputs,
     tn \in 1..MaxGW}

\* ---- the player data and the configuration given to the constructor ----

\* the columns of the player data and the number of gameweeks, from the
\* first, that the expected_points_by_gw of every player covers
PlayerDataInputs ==
  {[columns |-> RequiredColumns \cup {"id"}, gameweeks |-> DataGameweeks],
   [columns |-> RequiredColumns, gameweeks |-> DataGameweeks],
   [columns |-> (RequiredColumns \cup {"id"}) \ {"cost"}, gameweeks |-> DataGameweeks],
   [columns |-> RequiredColumns \cup {"id"}, gameweeks |-> 1]}

\* config.py as distributed: nothing is enforced
DefaultConfig ==
  [ENFORCED_PLAYERS_BY_ID |-> {},
   ENFORCED_PLAYERS_BY_NAME |-> {},
   ENFORCED_PLAYERS_BY_TEAM_AND_POSITION |-> {}]

\* ENFORCED_PLAYERS_BY_ID, ENFORCED_PLAYERS_BY_NAME and
\* ENFORCED_PLAYERS_BY_TEAM_AND_POSITION of config.py
ConfigInputs ==
  {DefaultConfig,
   [ENFORCED_PLAYERS_BY_ID |-> {player_id(16)},
    ENFORCED_PLAYERS_BY_NAME |-> {},
    ENFORCED_PLAYERS_BY_TEAM_AND_POSITION |-> {}],
   [ENFORCED_PLAYERS_BY_ID |-> {999},
    ENFORCED_PLAYERS_BY_NAME |-> {},
    ENFORCED_PLAYERS_BY_TEAM_AND_POSITION |-> {}],
   [ENFORCED_PLAYERS_BY_ID |-> {},
    ENFORCED_PLAYERS_BY_NAME |-> {player_name(17), <<"player", 0>>},
    ENFORCED_PLAYERS_BY_TEAM_AND_POSITION |->
      {[team |-> "F", position |-> "FWD"],
       [team |-> "Z", position |-> "FWD"],
       [team |-> "A", position |-> "SUB"],
       [team |-> "A", position |-> "FWD"],
       [team |-> "H"]}],
   [ENFORCED_PLAYERS_BY_ID |-> {},
    ENFORCED_PLAYERS_BY_NAME |->
      {player_name(14), player_name(15), player_name(16), player_name(17)},
    ENFORCED_PLAYERS_BY_TEAM_AND_POSITION |-> {}]}

\* requirement.get(key): None when the key is absent
Get(requirement, key) ==
  IF key \in DOMAIN requirement THEN requirement[key] ELSE "None"

\* found_player.index[0] for the rows of the player data that match
FirstIndex(found_player) == Min(found_player)

\* self.enforced_player_indices after the loops over ENFORCED_PLAYERS_BY_ID
\* and ENFORCED_PLAYERS_BY_NAME: a value without a row gives a warning
EnforcedPlayerIndices(cfg) ==
  {FirstIndex({i \in Players : player_id(i) = pid}) :
     pid \in {q \in cfg.ENFORCED_PLAYERS_BY_ID :
                \E i \in Players : player_id(i) = q}}
  \cup
  {FirstIndex({i \in Players : player_name(i) = pname}) :
     pname \in {q \in cfg.ENFORCED_PLAYERS_BY_NAME :
                  \E i \in Players : player_name(i) = q}}

\* self.enforced_team_pos_requirements: the requirements with a team and a
\* position that both occur in the data; the others give a warning
EnforcedTeamPosRequirements(cfg) ==
  {<<Get(r, "team"), Get(r, "position")>> :
     r \in {q \in cfg.ENFORCED_PLAYERS_BY_TEAM_AND_POSITION :
              /\ Get(q, "team") # "None"
              /\ Get(q, "position") # "None"
              /\ Get(q, "team") \in Teams
              /\ Get(q, "position") \in Positions}}

\* the arguments of solve used on optimizers built from these inputs
InputSolveArgs ==
  {ta \in SolveArgs : /\ ta.budget = 1000
                      /\ "bench_boost" \in DOMAIN ta.chip_allowances}

\* the model a call of solve builds: its arguments and the enforcement
\* state of the optimizer
ProblemInput(a, enforced, requirements) ==
  [budget |-> a.budget,
   max_players_per_team |-> a.max_players_per_team,
   chip_allowances |-> a.chip_allowances,
   num_gameweeks |-> a.num_gameweeks,
   enforced_player_indices |-> enforced,
   enforced_team_pos_requirements |-> requirements]

ProblemInputs ==
  {ProblemInput(ta, {}, {}) : ta \in SolveArgs}
  \cup {ProblemInput(ta, EnforcedPlayerIndices(tcfg), EnforcedTeamPosRequirements(tcfg)) :
          ta \in InputSolveArgs, tcfg \in ConfigInputs}

\* chip_allowances.get(chip, 0)
ChipAllowance(chip_allowances, chip) ==
  IF chip \in DOMAIN chip_allowances THEN chip_allowances[chip] ELSE 0

\* the values the chip variables can take under "Max_Bench_Boost_Usage_Total"
\* and "Max_Triple_Captain_Usage_Total" for some input
BenchBoostValues ==
  {tv \in {0, 1} :
     \E tca \in ChipAllowanceInputs : tv <= ChipAllowance(tca, "bench_boost")}

TripleCaptainValues ==
  {tv \in {0, 1} :
     \E tca \in ChipAllowanceInputs : tv <= ChipAllowance(tca, "triple_captain")}

\* squads satisfying the constraints that do not depend on solve's arguments
PositionSquads ==
  {tS \in {tT : tT \in SUBSET Players} : TotalPlayers(tS) /\ SquadPositions(tS)}

\* the starting XIs allowed for each such squad
StartingXIs ==
  [tS \in PositionSquads |->
     {tX \in {tY : tY \in SUBSET tS} :
        StartingXI(tS, tX) /\ StartingXIPositions(tX)}]

\* candidate values of captain_var[.][w]: no captain or one player
CaptainCandidates == {{}} \cup {{ti} : ti \in Players}

\* the pairs <<is_bench_player, actual_bench_boost_points>> allowed for
\* player i in gameweek w with squad value s, starter value x and chip bb
BenchAux ==
  [tw \in Weeks(MaxGW), tbb \in {0, 1}, ts \in {0, 1}, tx \in {0, 1},
   ti \in Players |->
     {tp \in {tu : tu \in {0, 1} \X (0..MaxBonus)} :
        /\ tp[1] \in IsBench(ts, tx)
        /\ tp[2] \in BonusContr(player_xp(ti, gw_actual(tw)), tp[1], tbb)}]

\* the values of actual_triple_captain_bonus allowed for player i in
\* gameweek w with captain value c and chip tc
CaptainAux ==
  [tw \in Weeks(MaxGW), ttc \in {0, 1}, tcap \in {0, 1}, ti \in Players |->
     BonusContr(player_xp(ti, gw_actual(tw)), tcap, ttc)]

\* the largest bench-boost bonus each player can contribute
BenchGain ==
  [tw \in Weeks(MaxGW), tbb \in BenchBoostValues, ts \in {0, 1}, tx \in {0, 1} |->
     [ti \in Players |->
        IF BenchAux[tw, tbb, ts, tx, ti] = {} THEN 0
        ELSE Max({tp[2] : tp \in BenchAux[tw, tbb, ts, tx, ti]})]]

\* players for which no value is allowed
BenchBlocked ==
  [tw \in Weeks(MaxGW), tbb \in BenchBoostValues, ts \in {0, 1}, tx \in {0, 1} |->
     {ti \in Players : BenchAux[tw, tbb, ts, tx, ti] = {}}]

CaptainGain ==
  [tw \in Weeks(MaxGW), ttc \in TripleCaptainValues, tcap \in {0, 1} |->
     [ti \in Players |->
        IF CaptainAux[tw, ttc, tcap, ti] = {} THEN 0
        ELSE Max(CaptainAux[tw, ttc, tcap, ti])]]

CaptainBlocked ==
  [tw \in Weeks(MaxGW), ttc \in TripleCaptainValues, tcap \in {0, 1} |->
     {ti \in Players : CaptainAux[tw, ttc, tcap, ti] = {}}]

\* can the auxiliary variables be assigned for squad S and starting XI X
BenchFeasible(w, bb, S, X) ==
  /\ (S \ X) \cap BenchBlocked[w, bb, 1, 0] = {}
  /\ X \cap BenchBlocked[w, bb, 1, 1] = {}
  /\ (Players \ S) \cap BenchBlocked[w, bb, 0, 0] = {}

CaptainFeasible(w, tc, C) ==
  /\ C \cap CaptainBlocked[w, tc, 1] = {}
  /\ (Players \ C) \cap CaptainBlocked[w, tc, 0] = {}

\* points of the starting XI plus the largest bench-boost bonus
BenchValue(w, bb, S, X) ==
  lpSum(xp_gw(w), X)
  + lpSum(BenchGain[w, bb, 1, 0], S \ X)
  + lpSum(BenchGain[w, bb, 1, 1], X)
  + lpSum(BenchGain[w, bb, 0, 0], Players \ S)

\* the captain's extra share plus the largest triple-captain bonus
CaptainValue ==
  [tw \in Weeks(MaxGW), ttc \in TripleCaptainValues, tC \in CaptainCandidates |->
     lpSum(xp_gw(tw), tC)
     + lpSum(CaptainGain[tw, ttc, 1], tC)
     + lpSum(CaptainGain[tw, ttc, 0], Players \ tC)]

\* the captain candidates whose auxiliary variables can be assigned
FeasibleCaptains ==
  [tw \in Weeks(MaxGW), ttc \in TripleCaptainValues |->
     {tC \in CaptainCandidates : CaptainFeasible(tw, ttc, tC)}]

\* the captains allowed with starting XI X
Captains(w, tc, X) == {C \in FeasibleCaptains[w, tc] : Captain(X, C)}

\* the best week objective with squad S and starting XI X over the captains
\* and the auxiliary variables, or -1 if there is none
BestLineup(w, bb, tc, S, X) ==
  LET caps == Captains(w, tc, X)
  IN  IF BenchFeasible(w, bb, S, X) /\ caps # {}
      THEN BenchValue(w, bb, S, X) + Max({CaptainValue[w, tc, C] : C \in caps})
      ELSE -1

\* one value per player: the tuples whose i-th entry is taken from opt(i)
PerPlayer(opt(_)) ==
  opt(1) \X opt(2) \X opt(3) \X opt(4) \X opt(5) \X opt(6) \X opt(7) \X opt(8)
  \X opt(9) \X opt(10) \X opt(11) \X opt(12) \X opt(13) \X opt(14) \X opt(15)
  \X opt(16) \X opt(17)

\* the line-ups of squad S with a starting XI of XIs that reach the week
\* objective best, each with its auxiliary variables
Lineups(w, bb, tc, S, XIs, best) ==
  LET Aux(X, C) ==
        {[starting_xi |-> X, captain |-> C,
          is_bench |-> [i \in Players |-> ba[i][1]],
          bench_boost_points |-> [i \in Players |-> ba[i][2]],
          triple_captain_bonus |-> ca] :
           ba \in PerPlayer(LAMBDA i : BenchAux[w, bb, In(i, S), In(i, X), i]),
           ca \in PerPlayer(LAMBDA i : CaptainAux[w, tc, In(i, C), i])}
      Points(l) == LineupPoints(w, l.starting_xi, l.captain)
                   + BonusPoints(l.bench_boost_points)
                   + BonusPoints(l.triple_captain_bonus)
  IN  {l \in UNION {UNION {Aux(X, C) : C \in Captains(w, tc, X)} : X \in XIs} :
         Points(l) = best}

\* the best week objective for squad S (-1 if no line-up is allowed) and
\* the line-ups that reach it
BestLineups(w, bb, tc, S) ==
  CHOOSE r \in
    {CHOOSE q \in
       {[best |-> best,
         lineups |-> Lineups(w, bb, tc, S,
                             {p[2] : p \in {o \in values : o[1] = best}}, best)] :
          best \in {Max({-1} \cup {p[1] : p \in values})}} : TRUE :
       values \in {{<<BestLineup(w, bb, tc, S, X), X>> : X \in StartingXIs[S]}}} :
    TRUE

BestWeek ==
  [tw \in Weeks(MaxGW), tbb \in BenchBoostValues, ttc \in TripleCaptainValues,
   tS \in PositionSquads |-> BestLineups(tw, tbb, ttc, tS)]

\* ---- transfers between consecutive gameweeks ----

\* a faulty continuity that exchanges the signs of the two transfer variables
SquadContinuity_Swapped(cur, prev, out, in) == cur = prev + out - in

\* "Squad_Continuity_{i}_GW{w}", on the 0/1 values of one player
SquadContinuity(cur, prev, out, in) == cur = prev - out + in

\* "No_Simultaneous_Transfer_{i}_{w}"
NoSimultaneousTransfer(in, out) == in + out <= 1

\* "Transfers_In_Equals_Out_GW{w}"
TransfersInEqualsOut(TI, TO) == Count(TI) = Count(TO)

\* a faulty count that adds the players going out to those coming in
TransfersMade_CountsBoth(made, TI) == made = 2 * Count(TI)

\* "Transfers_Made_GW{w}"
TransfersMade(made, TI) == made = Count(TI)

\* the <<transfer_in, transfer_out>> values one player may take
TransferOptions ==
  [tprev \in {0, 1}, tcur \in {0, 1} |->
     {tp \in {0, 1} \X {0, 1} :
        /\ SquadContinuity(tcur, tprev, tp[2], tp[1])
        /\ NoSimultaneousTransfer(tp[1], tp[2])}]

\* the transfer variables that lead from squad Sprev to squad Scur
TransferVars(Sprev, Scur) ==
  LET moves == PerPlayer(LAMBDA i : TransferOptions[In(i, Sprev), In(i, Scur)])
      AsSets(m) == [transfer_in |-> {i \in Players : m[i][1] = 1},
                    transfer_out |-> {i \in Players : m[i][2] = 1}]
  IN  {r \in {AsSets(m) : m \in moves} :
         TransfersInEqualsOut(r.transfer_in, r.transfer_out)}

TransferTable ==
  [tS \in PositionSquads, tT \in PositionSquads |-> TransferVars(tS, tT)]

\* ---- free transfers and hits ----

\* a model that lacks "Initial_Free_Transfers_GW0"
InitialFreeTransfers_Unconstrained(ft0) == ft0 \in Nat

\* "Initial_Free_Transfers_GW0"
InitialFreeTransfers(ft0) == ft0 = INITIAL_FREE_TRANSFERS

\* "Free_Transfers_Calc_1", "_Calc_2" and "Free_Transfers_Non_Negative"
FreeTransfersCalc(ft, ftprev, made) ==
  /\ ft <= ftprev - made + 1
  /\ ft <= MAX_FREE_TRANSFERS_SAVED + 1
  /\ ft >= 0

\* a faulty hit constraint that lacks "Transfer_Hits_Calc_1"
TransferHitsCalc_NonNegativeOnly(hits, made, ftprev) == hits >= 0

\* "Transfer_Hits_Calc_1" and "Transfer_Hits_Calc_2"
TransferHitsCalc(hits, made, ftprev) ==
  /\ hits >= made - ftprev
  /\ hits >= 0

\* the bounds of the variable free_transfers_available
FreeTransferRange == 0..(MAX_FREE_TRANSFERS_SAVED + 1)

\* the values of free_transfers_available and transfer_hits that the
\* constraints allow for the transfer counts made
Ledgers(num_gameweeks, made) ==
  {l \in [free_transfers_available : [Weeks(num_gameweeks) -> FreeTransferRange],
          transfer_hits : [1..(num_gameweeks - 1) -> 0..MaxHits]] :
     /\ InitialFreeTransfers(l.free_transfers_available[0])
     /\ \A w \in 1..(num_gameweeks - 1) :
          /\ FreeTransfersCalc(l.free_transfers_available[w],
                               l.free_transfers_available[w - 1], made[w])
          /\ TransferHitsCalc(l.transfer_hits[w], made[w],
                              l.free_transfers_available[w - 1])}

\* the objective's term for hits, as a cost
HitCost(num_gameweeks, transfer_hits) ==
  POINTS_PER_HIT * lpSum(transfer_hits, 1..(num_gameweeks - 1))

\* the candidate values of transfers_made over a horizon
TransferCounts(num_gameweeks) ==
  {made : made \in [1..(num_gameweeks - 1) -> 0..MaxTransfers]}

LedgerTable ==
  [tN \in 1..MaxGW |-> [tm \in TransferCounts(tN) |-> Ledgers(tN, tm)]]

\* the least hit cost for the transfer counts made, -1 when none is feasible
LedgerCost ==
  [tN \in 1..MaxGW |->
     [tm \in TransferCounts(tN) |->
        IF LedgerTable[tN][tm] = {} THEN -1
        ELSE Min({HitCost(tN, tl.transfer_hits) : tl \in LedgerTable[tN][tm]})]]

\* a faulty chip limit that counts the triple-captain allowance against
\* bench boost, so that the two chips exclude each other
MaxBenchBoostUsageTotal_SharedAllowance(use_bench_boost, a) ==
  lpSum(use_bench_boost, Weeks(a.num_gameweeks))
    <= ChipAllowance(a.chip_allowances, "bench_boost")
       - ChipAllowance(a.chip_allowances, "triple_captain")

\* "Max_Bench_Boost_Usage_Total"
MaxBenchBoostUsageTotal(use_bench_boost, a) ==
  lpSum(use_bench_boost, Weeks(a.num_gameweeks))
    <= ChipAllowance(a.chip_allowances, "bench_boost")

\* a faulty chip limit that bounds each gameweek instead of the horizon
MaxTripleCaptainUsageTotal_PerWeek(use_triple_captain, a) ==
  \A w \in Weeks(a.num_gameweeks) :
    use_triple_captain[w] <= ChipAllowance(a.chip_allowances, "triple_captain")

\* "Max_Triple_Captain_Usage_Total"
MaxTripleCaptainUsageTotal(use_triple_captain, a) ==
  lpSum(use_triple_captain, Weeks(a.num_gameweeks))
    <= ChipAllowance(a.chip_allowances, "triple_captain")

\* a model that lacks the constraints "Enforce_Player_<name>_GW"
EnforcePlayer_Absent(S, enforced) == enforced \subseteq Players

\* "Enforce_Player_<name>_GW": player_vars[player_idx][w] == 1
EnforcePlayer(S, enforced) == \A player_idx \in enforced : In(player_idx, S) = 1

\* team_pos_players
TeamPosPlayers(team, position) ==
  {i \in Players : /\ player_data[i].team = team
                   /\ player_data[i].position = position}

\* "Enforce_One_<position>_from_<team>_GW", added when team_pos_players is
\* not empty; otherwise a warning is printed
EnforceOne(S, requirements) ==
  \A r \in requirements :
    TeamPosPlayers(r[1], r[2]) # {} => Count(S \cap TeamPosPlayers(r[1], r[2])) >= 1

\* the squads a gameweek may hold: the per-gameweek constraints on player_vars
Squads(a) ==
  {S \in PositionSquads :
     /\ TotalBudget(S, a.budget)
     /\ MaxPlayersFromTeam(S, a.max_players_per_team)
     /\ EnforcePlayer(S, a.enforced_player_indices)
     /\ EnforceOne(S, a.enforced_team_pos_requirements)}

\* the values of player_vars, the chip variables and the transfer variables
\* that the constraints allow, before the line-ups are chosen
Skeletons(a) ==
  LET N == a.num_gameweeks
      squads == Squads(a)
      moves(sq) ==
        {tr \in [1..(N - 1) -> UNION {TransferTable[sq[w - 1], sq[w]] : w \in 1..(N - 1)}] :
           \A w \in 1..(N - 1) : tr[w] \in TransferTable[sq[w - 1], sq[w]]}
      chips == {c \in [use_bench_boost : [Weeks(N) -> {0, 1}],
                       use_triple_captain : [Weeks(N) -> {0, 1}]] :
                  /\ MaxBenchBoostUsageTotal(c.use_bench_boost, a)
                  /\ MaxTripleCaptainUsageTotal(c.use_triple_captain, a)}
      made(tr) == [w \in 1..(N - 1) |->
                     CHOOSE m \in 0..(2 * SquadSize) :
                       TransfersMade(m, tr[w].transfer_in)]
  IN  UNION {{[player_vars |-> sq,
               use_bench_boost |-> c.use_bench_boost,
               use_triple_captain |-> c.use_triple_captain,
               transfer_in_vars |-> [w \in 1..(N - 1) |-> tr[w].transfer_in],
               transfer_out_vars |-> [w \in 1..(N - 1) |-> tr[w].transfer_out],
               transfers_made |-> made(tr)] : c \in chips, tr \in moves(sq)} :
             sq \in [Weeks(N) -> squads]}

\* the best week objectives of a skeleton
SkeletonWeeks(a, sk) ==
  [w \in Weeks(a.num_gameweeks) |->
     BestWeek[w, sk.use_bench_boost[w], sk.use_triple_captain[w],
              sk.player_vars[w]].best]

\* the least hit cost of a skeleton
SkeletonCost(a, sk) ==
  IF \A w \in 1..(a.num_gameweeks - 1) : sk.transfers_made[w] <= MaxTransfers
  THEN LedgerCost[a.num_gameweeks][sk.transfers_made] ELSE -1

\* a skeleton can be completed to a feasible assignment
SkeletonFeasible(a, sk) ==
  /\ SkeletonCost(a, sk) >= 0
  /\ \A w \in Weeks(a.num_gameweeks) : SkeletonWeeks(a, sk)[w] >= 0

\* the best objective value among the completions of a feasible skeleton
SkeletonValue(a, sk) ==
  lpSum(SkeletonWeeks(a, sk), Weeks(a.num_gameweeks)) - SkeletonCost(a, sk)

\* the assignments made of a skeleton, one line-up of lineups[w] for each
\* gameweek w and one ledger of ledgers
Assignments(N, sk, lineups, ledgers) ==
  {[player_vars |-> sk.player_vars,
    starting_xi_vars |-> [w \in Weeks(N) |-> f[w].starting_xi],
    captain_var |-> [w \in Weeks(N) |-> f[w].captain],
    use_bench_boost |-> sk.use_bench_boost,
    use_triple_captain |-> sk.use_triple_captain,
    transfer_in_vars |-> sk.transfer_in_vars,
    transfer_out_vars |-> sk.transfer_out_vars,
    transfers_made |-> sk.transfers_made,
    free_transfers_available |-> l.free_transfers_available,
    transfer_hits |-> l.transfer_hits,
    is_bench_player |-> [w \in Weeks(N) |-> f[w].is_bench],
    actual_bench_boost_points |-> [w \in Weeks(N) |-> f[w].bench_boost_points],
    actual_triple_captain_bonus |->
      [w \in Weeks(N) |-> f[w].triple_captain_bonus]] :
     f \in {g \in [Weeks(N) -> UNION {lineups[w] : w \in Weeks(N)}] :
              \A w \in Weeks(N) : g[w] \in lineups[w]},
     l \in ledgers}

\* the completions of a skeleton that reach its best objective value
Completions(a, sk) ==
  UNION {Assignments(a.num_gameweeks, sk, lineups, ledgers) :
           lineups \in {[w \in Weeks(a.num_gameweeks) |->
                           BestWeek[w, sk.use_bench_boost[w],
                                    sk.use_triple_captain[w],
                                    sk.player_vars[w]].lineups]},
           ledgers \in {{l \in LedgerTable[a.num_gameweeks][sk.transfers_made] :
                           HitCost(a.num_gameweeks, l.transfer_hits)
                             = SkeletonCost(a, sk)}}}

\* the feasible skeletons of the problem built from the arguments, each
\* with the best objective value of its completions
FeasibleSkeletons(a) ==
  {<<SkeletonValue(a, sk), sk>> : sk \in {k \in Skeletons(a) : SkeletonFeasible(a, k)}}

\* the assignments of the feasible skeletons that reach the objective value best
OptimalAssignments(a, feasible, best) ==
  UNION {Completions(a, p[2]) : p \in {o \in feasible : o[1] = best}}

\* the objective values below the best one
Below(values) == {x \in values : \E y \in values : x < y}

\* what the backend can return for the problem built from the arguments:
\* whether it is feasible, its optimal assignments, and the assignments it
\* may hold when it stops one improvement short of the optimum
Problem(a) ==
  CHOOSE r \in
    {IF feasible = {} THEN [feasible |-> FALSE, optimal |-> {}, incumbent |-> {}]
     ELSE CHOOSE q \in
       {[feasible |-> TRUE,
         optimal |-> OptimalAssignments(a, feasible, Max(values)),
         incumbent |-> IF Below(values) = {} THEN {}
                       ELSE OptimalAssignments(a, feasible, Max(Below(values)))] :
          values \in {{p[1] : p \in feasible}}} : TRUE :
       feasible \in {FeasibleSkeletons(a)}} : TRUE

ProblemTable == [ta \in {tq : tq \in ProblemInputs} |-> Problem(ta)]

\* a faulty objective that does not subtract the hits
Objective_WithoutHits(num_gameweeks, v) ==
  lpSum([w \in Weeks(num_gameweeks) |->
           LineupPoints(w, v.starting_xi_vars[w], v.captain_var[w])
           + BonusPoints(v.actual_bench_boost_points[w])
           + BonusPoints(v.actual_triple_captain_bonus[w])],
        Weeks(num_gameweeks))

\* "Total Expected Points Over Gameweeks", the objective
Objective(num_gameweeks, v) ==
  lpSum([w \in Weeks(num_gameweeks) |->
           LineupPoints(w, v.starting_xi_vars[w], v.captain_var[w])
           + BonusPoints(v.actual_bench_boost_points[w])
           + BonusPoints(v.actual_triple_captain_bonus[w])],
        Weeks(num_gameweeks))
  - HitCost(num_gameweeks, v.transfer_hits)

(***************************************************************************)
(* The optimizer variant of src/src/fpl_solver/fpl_solver.py.  Its solve   *)
(* builds the same variables and the same constraints on squads, line-ups, *)
(* bench boost, chips and transfers; it has no enforced players.  It       *)
(* differs in the objective, which has no term for the captain, and in the *)
(* triple captain constraints, which bound the bonus by player_xp * 2.     *)
(***************************************************************************)
\* TripleCaptain_Contr_1..4 of the variant: the values of
\* actual_triple_captain_bonus[i][w] allowed for points v, captain value ind
\* and chip flag act
VariantTripleCaptainContr(v, ind, act) ==
  {y \in 0..(2 * MaxBonus) : /\ y <= v * 2 * ind
                             /\ y <= v * 2 * act
                             /\ y >= v * 2 * (ind + act - 1)
                             /\ y >= 0}

\* base_points_expression_gw, the only term of the variant's objective that
\* reads the line-up
VariantLineupPoints(w, X) == lpSum(xp_gw(w), X)

\* the values of actual_triple_captain_bonus allowed for player i in
\* gameweek w with captain value c and chip tc
VariantCaptainAux ==
  [tw \in Weeks(MaxGW), ttc \in TripleCaptainValues, tcap \in {0, 1}, ti \in Players |->
     VariantTripleCaptainContr(player_xp(ti, gw_actual(tw)), tcap, ttc)]

\* the largest triple-captain bonus each player can contribute
VariantCaptainGain ==
  [tw \in Weeks(MaxGW), ttc \in TripleCaptainValues, tcap \in {0, 1} |->
     [ti \in Players |->
        IF VariantCaptainAux[tw, ttc, tcap, ti] = {} THEN 0
        ELSE Max(VariantCaptainAux[tw, ttc, tcap, ti])]]

\* players for which no value is allowed
VariantCaptainBlocked ==
  [tw \in Weeks(MaxGW), ttc \in TripleCaptainValues, tcap \in {0, 1} |->
     {ti \in Players : VariantCaptainAux[tw, ttc, tcap, ti] = {}}]

VariantCaptainFeasible(w, tc, C) ==
  /\ C \cap VariantCaptainBlocked[w, tc, 1] = {}
  /\ (Players \ C) \cap VariantCaptainBlocked[w, tc, 0] = {}

\* what the choice of the captain adds to the variant's objective: the
\* largest triple-captain bonus, and nothing else
VariantCaptainValue ==
  [tw \in Weeks(MaxGW), ttc \in TripleCaptainValues, tC \in CaptainCandidates |->
     lpSum(VariantCaptainGain[tw, ttc, 1], tC)
     + lpSum(VariantCaptainGain[tw, ttc, 0], Players \ tC)]

VariantFeasibleCaptains ==
  [tw \in Weeks(MaxGW), ttc \in TripleCaptainValues |->
     {tC \in CaptainCandidates : VariantCaptainFeasible(tw, ttc, tC)}]

\* the captains allowed with starting XI X
VariantCaptains(w, tc, X) == {C \in VariantFeasibleCaptains[w, tc] : Captain(X, C)}

\* the best week objective with squad S and starting XI X over the captains
\* and the auxiliary variables, or -1 if there is none
VariantBestLineup(w, bb, tc, S, X) ==
  LET caps == VariantCaptains(w, tc, X)
  IN  IF BenchFeasible(w, bb, S, X) /\ caps # {}
      THEN BenchValue(w, bb, S, X) + Max({VariantCaptainValue[w, tc, C] : C \in caps})
      ELSE -1

\* the line-ups of squad S with a starting XI of XIs that reach the week
\* objective best, each with its auxiliary variables
VariantLineups(w, bb, tc, S, XIs, best) ==
  LET Aux(X, C) ==
        {[starting_xi |-> X, captain |-> C,
          is_bench |-> [i \in Players |-> ba[i][1]],
          bench_boost_points |-> [i \in Players |-> ba[i][2]],
          triple_captain_bonus |-> ca] :
           ba \in PerPlayer(LAMBDA i : BenchAux[w, bb, In(i, S), In(i, X), i]),
           ca \in PerPlayer(LAMBDA i : VariantCaptainAux[w, tc, In(i, C), i])}
      Points(l) == VariantLineupPoints(w, l.starting_xi)
                   + BonusPoints(l.bench_boost_points)
                   + BonusPoints(l.triple_captain_bonus)
  IN  {l \in UNION {UNION {Aux(X, C) : C \in VariantCaptains(w, tc, X)} : X \in XIs} :
         Points(l) = best}

VariantBestLineups(w, bb, tc, S) ==
  CHOOSE r \in
    {CHOOSE q \in
       {[best |-> best,
         lineups |-> VariantLineups(w, bb, tc, S,
                                    {p[2] : p \in {o \in values : o[1] = best}}, best)] :
          best \in {Max({-1} \cup {p[1] : p \in values})}} : TRUE :
       values \in {{<<VariantBestLineup(w, bb, tc, S, X), X>> : X \in StartingXIs[S]}}} :
    TRUE

VariantBestWeek ==
  [tw \in Weeks(MaxGW), tbb \in BenchBoostValues, ttc \in TripleCaptainValues,
   tS \in PositionSquads |-> VariantBestLineups(tw, tbb, ttc, tS)]

\* the best week objectives of a skeleton
VariantSkeletonWeeks(a, sk) ==
  [w \in Weeks(a.num_gameweeks) |->
     VariantBestWeek[w, sk.use_bench_boost[w], sk.use_triple_captain[w],
                     sk.player_vars[w]].best]

VariantSkeletonFeasible(a, sk) ==
  /\ SkeletonCost(a, sk) >= 0
  /\ \A w \in Weeks(a.num_gameweeks) : VariantSkeletonWeeks(a, sk)[w] >= 0

VariantSkeletonValue(a, sk) ==
  lpSum(VariantSkeletonWeeks(a, sk), Weeks(a.num_gameweeks)) - SkeletonCost(a, sk)

\* the completions of a skeleton that reach its best objective value
VariantCompletions(a, sk) ==
  UNION {Assignments(a.num_gameweeks, sk, lineups, ledgers) :
           lineups \in {[w \in Weeks(a.num_gameweeks) |->
                           VariantBestWeek[w, sk.use_bench_boost[w],
                                           sk.use_triple_captain[w],
                                           sk.player_vars[w]].lineups]},
           ledgers \in {{l \in LedgerTable[a.num_gameweeks][sk.transfers_made] :
                           HitCost(a.num_gameweeks, l.transfer_hits)
                             = SkeletonCost(a, sk)}}}

VariantFeasibleSkeletons(a) ==
  {<<VariantSkeletonValue(a, sk), sk>> :
     sk \in {k \in Skeletons(a) : VariantSkeletonFeasible(a, k)}}

VariantOptimalAssignments(a, feasible, best) ==
  UNION {VariantCompletions(a, p[2]) : p \in {o \in feasible : o[1] = best}}

\* what the backend can return for the problem the variant builds from the
\* arguments
VariantProblem(a) ==
  CHOOSE r \in
    {IF feasible = {} THEN [feasible |-> FALSE, optimal |-> {}, incumbent |-> {}]
     ELSE CHOOSE q \in
       {[feasible |-> TRUE,
         optimal |-> VariantOptimalAssignments(a, feasible, Max(values)),
         incumbent |-> IF Below(values) = {} THEN {}
                       ELSE VariantOptimalAssignments(a, feasible, Max(Below(values)))] :
          values \in {{p[1] : p \in feasible}}} : TRUE :
       feasible \in {VariantFeasibleSkeletons(a)}} : TRUE

\* the calls of the variant's solve: one gameweek, since with the chip
\* unused every starter is an optimal captain in every gameweek
VariantArgs == {ta \in SolveArgs : ta.num_gameweeks = 1}

VariantProblemTable ==
  [ta \in {tq : tq \in VariantArgs} |-> VariantProblem(ProblemInput(ta, {}, {}))]

\* "Total Expected Points Over Gameweeks", the objective of the variant
VariantObjective(num_gameweeks, v) ==
  lpSum([w \in Weeks(num_gameweeks) |->
           VariantLineupPoints(w, v.starting_xi_vars[w])
           + BonusPoints(v.actual_bench_boost_points[w])
           + BonusPoints(v.actual_triple_captain_bonus[w])],
        Weeks(num_gameweeks))
  - HitCost(num_gameweeks, v.transfer_hits)

\* ---- the result state ----

VARIABLES
  problem,                  \* self.problem: arguments, status, variable values
  selected_squad_history,   \* self.selected_squad_history
  total_cost,               \* self.total_cost
  total_expected_points,    \* self.total_expected_points
  total_transfer_hits,      \* self.total_transfer_hits
  used_chips,               \* self.used_chips
  returned,                 \* what the last call of solve returned
  backend,                  \* how the backend ended in the last call of solve
  repeated,                 \* the last call of solve had the arguments of the
                            \* call before it
  columns,                  \* the columns of the player data
  xp_gameweeks,             \* the gameweeks every expected_points_by_gw covers
  config,                   \* the ENFORCED_* lists of config.py
  constructor,              \* how FPLOptimizer.__init__ ended
  enforced_player_indices,  \* self.enforced_player_indices
  enforced_team_pos_requirements,  \* self.enforced_team_pos_requirements
  decision_variables        \* the last call of solve created its LpVariables

VARIABLES
  cache_files,              \* the files of the cache directory, by path
  clock,                    \* time.time() and datetime.now(), in hours
  saved,                    \* per endpoint, the last save_response since the
                            \* last clear_cache: its time and its data
  cached_response           \* what the last get_cached_response returned

VARIABLES
  static_data,              \* the bootstrap-static response the predictor got
  exclusions,               \* the EXCLUDED_* lists of config.py
  players_data,             \* FPLPredictor.players_data
  teams_data,               \* FPLPredictor.teams_data
  all_players_xp_calculated_data,  \* FPLPredictor.all_players_xp_calculated_data
  predictor                 \* how far FPLPredictor.__init__ has come

VARIABLES
  player_week               \* the variables of one player in one gameweek and
                            \* of the chips in that gameweek, under the
                            \* linearisation constraints alone

\* the state of an FPLOptimizer and of its last call of solve
optimizer_vars ==
  <<problem, selected_squad_history, total_cost, total_expected_points,
    total_transfer_hits, used_chips, returned, backend, repeated,
    columns, xp_gameweeks, config, constructor, enforced_player_indices,
    enforced_team_pos_requirements, decision_variables>>

\* the state of a CacheManager, its directory and the clock
cache_vars == <<cache_files, clock, saved, cached_response>>

\* the state of an FPLPredictor and what it is given
predictor_vars ==
  <<static_data, exclusions, players_data, teams_data,
    all_players_xp_calculated_data, predictor>>

vars == <<optimizer_vars, cache_vars, predictor_vars, player_week>>

\* f"GW{gw_actual}", and int(k.replace("GW", ""))
GWKey(n) == <<"GW", n>>
GWNumber(k) == k[2]

\* an empty dict
EmptyDict == [k \in {} |-> {}]

\* a faulty record that counts the outgoing transfers among the squad rows
GameweekRecord_OutCountFromRows(a, v, w) ==
  [squad |->
     [i \in v.player_vars[w] |->
        [is_starter |-> i \in v.starting_xi_vars[w],
         is_captain |-> i \in v.captain_var[w],
         transfer_in |-> IF w > 0 THEN i \in v.transfer_in_vars[w] ELSE FALSE,
         transfer_out |-> IF w > 0 THEN i \in v.transfer_out_vars[w] ELSE FALSE]],
   total_cost |-> lpSum([i \in Players |-> player_data[i].cost], v.player_vars[w]),
   expected_points_from_xi |-> lpSum(xp_gw(w), v.starting_xi_vars[w]),
   bench_boost_used |-> v.use_bench_boost[w] # 0,
   triple_captain_used |-> v.use_triple_captain[w] # 0,
   total_bench_boost_points |-> BonusPoints(v.actual_bench_boost_points[w]),
   total_triple_captain_bonus |-> BonusPoints(v.actual_triple_captain_bonus[w]),
   transfers_in_count |-> IF w > 0 THEN Count(v.transfer_in_vars[w]) ELSE 0,
   transfers_out_count |->
     IF w > 0 THEN Count(v.transfer_out_vars[w] \cap v.player_vars[w]) ELSE 0,
   transfer_hits |-> IF w > 0 THEN v.transfer_hits[w] ELSE 0,
   free_transfers_available_next_gw |->
     IF w < a.num_gameweeks - 1 THEN v.free_transfers_available[w] ELSE 0]

\* the entry of the roster history for gameweek index w
GameweekRecord(a, v, w) ==
  [squad |->
     [i \in v.player_vars[w] |->
        [is_starter |-> i \in v.starting_xi_vars[w],
         is_captain |-> i \in v.captain_var[w],
         transfer_in |-> IF w > 0 THEN i \in v.transfer_in_vars[w] ELSE FALSE,
         transfer_out |-> IF w > 0 THEN i \in v.transfer_out_vars[w] ELSE FALSE]],
   total_cost |-> lpSum([i \in Players |-> player_data[i].cost], v.player_vars[w]),
   expected_points_from_xi |-> lpSum(xp_gw(w), v.starting_xi_vars[w]),
   bench_boost_used |-> v.use_bench_boost[w] # 0,
   triple_captain_used |-> v.use_triple_captain[w] # 0,
   total_bench_boost_points |-> BonusPoints(v.actual_bench_boost_points[w]),
   total_triple_captain_bonus |-> BonusPoints(v.actual_triple_captain_bonus[w]),
   transfers_in_count |-> IF w > 0 THEN Count(v.transfer_in_vars[w]) ELSE 0,
   transfers_out_count |-> IF w > 0 THEN Count(v.transfer_out_vars[w]) ELSE 0,
   transfer_hits |-> IF w > 0 THEN v.transfer_hits[w] ELSE 0,
   free_transfers_available_next_gw |->
     IF w < a.num_gameweeks - 1 THEN v.free_transfers_available[w] ELSE 0]

\* the roster history built from the variable values v
History(a, v) ==
  [k \in {GWKey(gw_actual(w)) : w \in Weeks(a.num_gameweeks)} |->
     GameweekRecord(a, v, GWNumber(k) - current_gameweek_number_start)]

\* self.used_chips built from the variable values v
UsedChips(a, v) ==
  [k \in {GWKey(gw_actual(w)) : w \in Weeks(a.num_gameweeks)} |->
     [bench_boost |->
        v.use_bench_boost[GWNumber(k) - current_gameweek_number_start] # 0,
      triple_captain |->
        v.use_triple_captain[GWNumber(k) - current_gameweek_number_start] # 0]]

\* the variables of a player and a gameweek with no problem built
NoPlayerWeek ==
  player_week = [status |-> "no problem", player_xp |-> 0, player_var |-> 0,
                 starting_xi_var |-> 0, captain_var |-> 0, use_bench_boost |-> 0,
                 use_triple_captain |-> 0, is_bench_player |-> 0,
                 actual_bench_boost_points |-> 0,
                 actual_triple_captain_bonus |-> 0]

\* no CacheManager: an empty cache directory that nothing reads or writes
NoCache ==
  /\ cache_files = EmptyDict
  /\ clock = 0
  /\ saved = [e \in {"static", "fixtures"} |-> {}]
  /\ cached_response = [endpoint |-> "None", result |-> {}]

\* no FPLPredictor: the optimizer is given its player data directly
NoPredictor ==
  /\ static_data = [elements |-> {}, teams |-> {}]
  /\ exclusions = [EXCLUDED_PLAYERS_BY_ID |-> {},
                   EXCLUDED_PLAYERS_BY_NAME |-> {},
                   EXCLUDED_PLAYERS_BY_TEAM_AND_POSITION |-> {}]
  /\ players_data = EmptyDict
  /\ teams_data = EmptyDict
  /\ all_players_xp_calculated_data = <<>>
  /\ predictor = "not constructed"

\* FPLOptimizer.__init__(player_data) under the configuration cfg: the
\* check of the required columns, the attributes, and the enforced players;
\* used_chips is not assigned there
Construct(data, cfg) ==
  /\ columns = data.columns
  /\ xp_gameweeks = data.gameweeks
  /\ config = cfg
  /\ problem = [status |-> "None", args |-> {}, values |-> {}]
  /\ selected_squad_history = EmptyDict
  /\ total_cost = 0
  /\ total_expected_points = 0
  /\ total_transfer_hits = 0
  /\ used_chips = [assigned |-> FALSE, chips |-> EmptyDict]
  /\ returned = "not called"
  /\ backend = "not called"
  /\ repeated = FALSE
  /\ decision_variables = FALSE
  /\ IF ~(RequiredColumns \subseteq data.columns)
     THEN \* raise ValueError
          /\ constructor = "ValueError"
          /\ enforced_player_indices = {}
          /\ enforced_team_pos_requirements = {}
     ELSE IF cfg.ENFORCED_PLAYERS_BY_ID # {} /\ "id" \notin data.columns
     THEN \* self.player_data["id"] raises KeyError
          /\ constructor = "KeyError"
          /\ enforced_player_indices = {}
          /\ enforced_team_pos_requirements = {}
     ELSE /\ constructor = "returned"
          /\ enforced_player_indices = EnforcedPlayerIndices(cfg)
          /\ enforced_team_pos_requirements = EnforcedTeamPosRequirements(cfg)

\* the state after FPLOptimizer.__init__ on complete player data under the
\* configuration as distributed
Init ==
  /\ Construct([columns |-> RequiredColumns \cup {"id"}, gameweeks |-> DataGameweeks],
               DefaultConfig)
  /\ NoCache
  /\ NoPredictor
  /\ NoPlayerWeek

\* the states after FPLOptimizer.__init__ on the player data and the
\* configurations of PlayerDataInputs and ConfigInputs
InitInputs ==
  /\ \E data \in PlayerDataInputs : \E cfg \in ConfigInputs : Construct(data, cfg)
  /\ NoCache
  /\ NoPredictor
  /\ NoPlayerWeek

\* a faulty extraction that takes total_cost from the first gameweek
Extract_FirstWeekCost(a, v) ==
  /\ selected_squad_history' = History(a, v)
  /\ total_transfer_hits' = lpSum(v.transfer_hits, 1..(a.num_gameweeks - 1))
  /\ total_cost' = History(a, v)[GWKey(current_gameweek_number_start)].total_cost
  /\ total_expected_points' = Objective(a.num_gameweeks, v)
  /\ used_chips' = [assigned |-> TRUE, chips |-> UsedChips(a, v)]
  /\ returned' = "True"

\* a faulty extraction that adds the objective value to the stored total
Extract_Accumulating(a, v) ==
  /\ selected_squad_history' = History(a, v)
  /\ total_transfer_hits' = lpSum(v.transfer_hits, 1..(a.num_gameweeks - 1))
  /\ total_cost' =
       History(a, v)[GWKey(current_gameweek_number_start + a.num_gameweeks - 1)].total_cost
  /\ total_expected_points' = total_expected_points + Objective(a.num_gameweeks, v)
  /\ used_chips' = [assigned |-> TRUE, chips |-> UsedChips(a, v)]
  /\ returned' = "True"

\* the status is "Optimal": the history and the totals are extracted
Extract(a, v) ==
  /\ selected_squad_history' = History(a, v)
  /\ total_transfer_hits' = lpSum(v.transfer_hits, 1..(a.num_gameweeks - 1))
  /\ total_cost' =
       History(a, v)[GWKey(current_gameweek_number_start + a.num_gameweeks - 1)].total_cost
  /\ total_expected_points' = Objective(a.num_gameweeks, v)
  /\ used_chips' = [assigned |-> TRUE, chips |-> UsedChips(a, v)]
  /\ returned' = "True"

\* a faulty reset that leaves the roster history in place
Reset_KeepsHistory ==
  /\ UNCHANGED selected_squad_history
  /\ total_cost' = 0
  /\ total_expected_points' = 0
  /\ used_chips' = [assigned |-> TRUE, chips |-> EmptyDict]
  /\ total_transfer_hits' = 0
  /\ returned' = "False"

\* any other status: the result state is reset
Reset ==
  /\ selected_squad_history' = EmptyDict
  /\ total_cost' = 0
  /\ total_expected_points' = 0
  /\ used_chips' = [assigned |-> TRUE, chips |-> EmptyDict]
  /\ total_transfer_hits' = 0
  /\ returned' = "False"

\* self.problem.solve raised: the except branch
Raised ==
  /\ returned' = "False"
  /\ UNCHANGED <<selected_squad_history, total_cost, total_expected_points,
                 total_transfer_hits, used_chips>>

\* a call of solve on a constructed optimizer: a new LpProblem and new
\* decision variables; the player data, the configuration and the enforced
\* players stay as they are
Call(a) ==
  /\ constructor = "returned"
  /\ repeated' = (problem.args = {a})
  /\ decision_variables' = TRUE
  /\ UNCHANGED <<columns, xp_gameweeks, config, constructor,
                 enforced_player_indices, enforced_team_pos_requirements>>
  /\ UNCHANGED <<cache_vars, predictor_vars, player_week>>

\* the objective can be built: every expected_points_by_gw has the
\* gameweeks of the horizon
HorizonCovered(a) == a.num_gameweeks <= xp_gameweeks

\* FPLOptimizer.solve(budget, max_players_per_team, chip_allowances,
\* num_gameweeks) with the backend proving an optimum
SolveOptimal(a) ==
  /\ Call(a)
  /\ HorizonCovered(a)
  /\ \E v \in ProblemTable[ProblemInput(a, enforced_player_indices,
                                        enforced_team_pos_requirements)].optimal :
       /\ problem' = [status |-> "Optimal", args |-> {a}, values |-> {v}]
       /\ backend' = "returned"
       /\ Extract(a, v)

\* solve with the backend reporting that no assignment exists
SolveInfeasible(a) ==
  /\ Call(a)
  /\ HorizonCovered(a)
  /\ ~ProblemTable[ProblemInput(a, enforced_player_indices,
                                enforced_team_pos_requirements)].feasible
  /\ problem' = [status |-> "Infeasible", args |-> {a}, values |-> {}]
  /\ backend' = "returned"
  /\ Reset

\* solve with the backend stopping on a feasible assignment it has not
\* proven optimal.  The status is taken to be one other than "Optimal": the
\* only test solve makes is LpStatus[self.problem.status] == "Optimal", so a
\* stopped solve that were labelled "Optimal" would be SolveOptimal to it.
SolveStopped(a) ==
  /\ Call(a)
  /\ HorizonCovered(a)
  /\ \E v \in ProblemTable[ProblemInput(a, enforced_player_indices,
                                        enforced_team_pos_requirements)].incumbent :
       /\ problem' = [status |-> "Not Solved", args |-> {a}, values |-> {v}]
       /\ backend' = "returned"
       /\ Reset

\* solve with the backend raising an exception
SolveRaised(a) ==
  /\ Call(a)
  /\ HorizonCovered(a)
  /\ problem' = [status |-> "Not Solved", args |-> {a}, values |-> {}]
  /\ backend' = "raised"
  /\ Raised

\* solve on player data that covers the horizon
Solve(a) ==
  \/ SolveOptimal(a)
  \/ SolveInfeasible(a)
  \/ SolveStopped(a)
  \/ SolveRaised(a)

\* solve on player data with a player whose expected_points_by_gw lacks a
\* gameweek of the horizon: the lookup [gw_actual] in the objective raises
\* KeyError, after the LpProblem and the decision variables were created
SolveKeyError(a) ==
  /\ Call(a)
  /\ ~HorizonCovered(a)
  /\ problem' = [status |-> "Not Solved", args |-> {a}, values |-> {}]
  /\ backend' = "not called"
  /\ returned' = "KeyError"
  /\ UNCHANGED <<selected_squad_history, total_cost, total_expected_points,
                 total_transfer_hits, used_chips>>

Next == \E a \in SolveArgs : Solve(a)

Spec == Init /\ [][Next]_vars

\* the calls of solve on the optimizers of InitInputs
NextInputs == \E a \in InputSolveArgs : Solve(a) \/ SolveKeyError(a)

SpecInputs == InitInputs /\ [][NextInputs]_vars

(***************************************************************************)
(* solve of the variant.  Its constructor assigns the same attributes as   *)
(* Init; its try/except and its two result branches are those of Raised,   *)
(* Extract (with the variant's objective) and Reset.                       *)
(***************************************************************************)
\* the status is "Optimal": the history and the totals are extracted
VariantExtract(a, v) ==
  /\ selected_squad_history' = History(a, v)
  /\ total_transfer_hits' = lpSum(v.transfer_hits, 1..(a.num_gameweeks - 1))
  /\ total_cost' =
       History(a, v)[GWKey(current_gameweek_number_start + a.num_gameweeks - 1)].total_cost
  /\ total_expected_points' = VariantObjective(a.num_gameweeks, v)
  /\ used_chips' = [assigned |-> TRUE, chips |-> UsedChips(a, v)]
  /\ returned' = "True"

VariantSolveOptimal(a) ==
  /\ Call(a)
  /\ \E v \in VariantProblemTable[a].optimal :
       /\ problem' = [status |-> "Optimal", args |-> {a}, values |-> {v}]
       /\ backend' = "returned"
       /\ VariantExtract(a, v)

VariantSolveInfeasible(a) ==
  /\ Call(a)
  /\ ~VariantProblemTable[a].feasible
  /\ problem' = [status |-> "Infeasible", args |-> {a}, values |-> {}]
  /\ backend' = "returned"
  /\ Reset

VariantSolveStopped(a) ==
  /\ Call(a)
  /\ \E v \in VariantProblemTable[a].incumbent :
       /\ problem' = [status |-> "Not Solved", args |-> {a}, values |-> {v}]
       /\ backend' = "returned"
       /\ Reset

VariantSolveRaised(a) ==
  /\ Call(a)
  /\ problem' = [status |-> "Not Solved", args |-> {a}, values |-> {}]
  /\ backend' = "raised"
  /\ Raised

VariantSolve(a) ==
  \/ VariantSolveOptimal(a)
  \/ VariantSolveInfeasible(a)
  \/ VariantSolveStopped(a)
  \/ VariantSolveRaised(a)

NextVariant == \E a \in VariantArgs : VariantSolve(a)

SpecVariant == Init /\ [][NextVariant]_vars

(***************************************************************************)
(* CacheManager (cache_manager.py) and fetch_api_data, its caller in       *)
(* FPLPredictor._fetch_fpl_data.  Time is counted in hours.  An optional   *)
(* value (data or None) is a set with at most one element.                 *)
(***************************************************************************)
\* the latest time the clock reaches
MaxClock == 5

\* self.cache_expiry = timedelta(hours=cache_expiry_hours), by default 3
cache_expiry == 3

\* the endpoint identifiers fetch_api_data is called with
Endpoints == {"static", "fixtures"}

\* the responses of the API
Responses == {[elements |-> {1}], [elements |-> {1, 2}]}

\* _get_cache_path: os.path.join(self.cache_dir, f"{endpoint}.json")
get_cache_path(endpoint) == <<endpoint, ".json">>

\* json.dump(cache_data, f): the text written to the file
JsonDump(cache_data) == <<"json", cache_data>>

\* json.load(f): the object of a text json.dump wrote; any other text
\* raises JSONDecodeError (no object)
JsonLoad(text) == IF text[1] = "json" THEN {text[2]} ELSE {}

\* the cache directories a new CacheManager may find: empty, with a
\* truncated file, or with a file that lacks 'cached_at'
CacheDirInputs ==
  {EmptyDict,
   [tp \in {get_cache_path("static")} |->
      <<"truncated", [cached_at |-> 0, data |-> [elements |-> {1}]]>>],
   [tp \in {get_cache_path("fixtures")} |->
      JsonDump([data |-> [elements |-> {1}]])]}

\* a faulty lookup that never expires an entry
get_cached_response_NeverExpires(endpoint) ==
  IF get_cache_path(endpoint) \notin DOMAIN cache_files THEN {}
  ELSE IF JsonLoad(cache_files[get_cache_path(endpoint)]) = {} THEN {}
  ELSE LET cached_data ==
             CHOOSE o \in JsonLoad(cache_files[get_cache_path(endpoint)]) : TRUE
       IN  IF "cached_at" \notin DOMAIN cached_data THEN {}
           ELSE IF "data" \notin DOMAIN cached_data THEN {}
           ELSE {cached_data.data}

\* CacheManager.get_cached_response(endpoint): None if the file does not
\* exist, cannot be parsed, lacks a key or has expired; else its data
get_cached_response(endpoint) ==
  IF get_cache_path(endpoint) \notin DOMAIN cache_files THEN {}
  ELSE IF JsonLoad(cache_files[get_cache_path(endpoint)]) = {} THEN {}
  ELSE LET cached_data ==
             CHOOSE o \in JsonLoad(cache_files[get_cache_path(endpoint)]) : TRUE
       IN  IF "cached_at" \notin DOMAIN cached_data THEN {}
           ELSE IF clock - cached_data.cached_at > cache_expiry THEN {}
           ELSE IF "data" \notin DOMAIN cached_data THEN {}
           ELSE {cached_data.data}

\* the cache operations leave the optimizer and the predictor alone
CacheOnly == UNCHANGED <<optimizer_vars, predictor_vars, player_week>>

\* a new CacheManager on one of the cache directories
CacheInit ==
  /\ cache_files \in CacheDirInputs
  /\ clock = 0
  /\ saved = [e \in Endpoints |-> {}]
  /\ cached_response = [endpoint |-> "None", result |-> {}]

\* a call of get_cached_response(endpoint)
GetCachedResponse(endpoint) ==
  /\ cached_response' = [endpoint |-> endpoint, result |-> get_cached_response(endpoint)]
  /\ UNCHANGED <<cache_files, clock, saved>>
  /\ CacheOnly

\* the file system after open(cache_path, 'w') and json.dump
WriteCacheFile(endpoint, data) ==
  [p \in DOMAIN cache_files \cup {get_cache_path(endpoint)} |->
     IF p = get_cache_path(endpoint)
     THEN JsonDump([cached_at |-> clock, data |-> data])
     ELSE cache_files[p]]

\* CacheManager.save_response(endpoint, data)
SaveResponse(endpoint, data) ==
  /\ cache_files' = WriteCacheFile(endpoint, data)
  /\ saved' = [saved EXCEPT ![endpoint] = {[at |-> clock, data |-> data]}]
  /\ UNCHANGED <<clock, cached_response>>
  /\ CacheOnly

\* CacheManager.clear_cache(): every file that ends with '.json' is removed
ClearCache ==
  /\ cache_files' = [p \in {q \in DOMAIN cache_files : q[2] # ".json"} |->
                       cache_files[p]]
  /\ saved' = [e \in Endpoints |-> {}]
  /\ UNCHANGED <<clock, cached_response>>
  /\ CacheOnly

\* an hour passes
Tick ==
  /\ clock < MaxClock
  /\ clock' = clock + 1
  /\ UNCHANGED <<cache_files, saved, cached_response>>
  /\ CacheOnly

\* fetch_api_data(url, endpoint) with a cached response: it is returned
FetchCached(endpoint) ==
  /\ get_cached_response(endpoint) # {}
  /\ GetCachedResponse(endpoint)

\* fetch_api_data without a cached response: the response of the API is
\* saved and returned
FetchFromApi(endpoint, data) ==
  /\ get_cached_response(endpoint) = {}
  /\ cached_response' = [endpoint |-> endpoint, result |-> {}]
  /\ cache_files' = WriteCacheFile(endpoint, data)
  /\ saved' = [saved EXCEPT ![endpoint] = {[at |-> clock, data |-> data]}]
  /\ UNCHANGED clock
  /\ CacheOnly

\* fetch_api_data without a cached response when the request fails:
\* RequestException is raised and nothing is saved
FetchFailed(endpoint) ==
  /\ get_cached_response(endpoint) = {}
  /\ cached_response' = [endpoint |-> endpoint, result |-> {}]
  /\ UNCHANGED <<cache_files, clock, saved>>
  /\ CacheOnly

NextCache ==
  \/ \E endpoint \in Endpoints : GetCachedResponse(endpoint)
  \/ \E endpoint \in Endpoints : \E data \in Responses : SaveResponse(endpoint, data)
  \/ ClearCache
  \/ Tick
  \/ \E endpoint \in Endpoints : FetchCached(endpoint)
  \/ \E endpoint \in Endpoints : \E data \in Responses : FetchFromApi(endpoint, data)
  \/ \E endpoint \in Endpoints : FetchFailed(endpoint)

\* a CacheManager next to an optimizer and a predictor that stay as built
InitCache ==
  /\ Construct([columns |-> RequiredColumns \cup {"id"}, gameweeks |-> DataGameweeks],
               DefaultConfig)
  /\ CacheInit
  /\ NoPredictor
  /\ NoPlayerWeek

SpecCache == InitCache /\ [][NextCache]_vars

(***************************************************************************)
(* FPLPredictor (xp_predictor.py): __init__ sets the data structures,      *)
(* calls _fetch_fpl_data and then _calculate_all_players_xp.  Of a player  *)
(* the model keeps the id, the name, the team and the position; upcoming   *)
(* fixtures exist for every team.                                          *)
(***************************************************************************)
\* static_data["elements"] of the API, in the order of the response
ApiElements ==
  << [id |-> 1, name |-> "Kepa Arrizabalaga Revuelta", team |-> 10, element_type |-> 1],
     [id |-> 2, name |-> "Gabriel", team |-> 10, element_type |-> 2],
     [id |-> 3, name |-> "Ederson", team |-> 20, element_type |-> 1],
     [id |-> 4, name |-> "Erling Haaland", team |-> 20, element_type |-> 4],
     [id |-> 5, name |-> "Phil Foden", team |-> 20, element_type |-> 3] >>

\* static_data["teams"] of the API
ApiTeams ==
  {[id |-> 10, name |-> "Arsenal"], [id |-> 20, name |-> "Man City"]}

\* the bootstrap-static responses: complete, with fewer players, and
\* without the key "teams"
StaticDataInputs ==
  {[elements |-> ApiElements, teams |-> ApiTeams],
   [elements |-> SubSeq(ApiElements, 1, 3), teams |-> ApiTeams],
   [elements |-> ApiElements]}

\* EXCLUDED_PLAYERS_BY_ID, EXCLUDED_PLAYERS_BY_NAME and
\* EXCLUDED_PLAYERS_BY_TEAM_AND_POSITION of config.py
ExclusionInputs ==
  {[EXCLUDED_PLAYERS_BY_ID |-> tx,
    EXCLUDED_PLAYERS_BY_NAME |-> ty,
    EXCLUDED_PLAYERS_BY_TEAM_AND_POSITION |-> tz] :
     tx \in {{}, {2}, {4, 99}},
     ty \in {{}, {"Kepa Arrizabalaga Revuelta"}, {"Phil Foden", "Nobody"}},
     tz \in {{},
             {[team |-> "Arsenal", position |-> "GK"]},
             {[team |-> "Man City", position |-> "FWD"],
              [team |-> "Arsenal", position |-> "MID"],
              [position |-> "DEF"]}}}

\* self.position_definitions.get(element_type, "Unknown")
position_definitions(element_type) ==
  CASE element_type = 1 -> "GK"
    [] element_type = 2 -> "DEF"
    [] element_type = 3 -> "MID"
    [] element_type = 4 -> "FWD"
    [] OTHER -> "Unknown"

\* process_player_data for every element: self.players_data by player id
process_player_data(elements) ==
  [pid \in {elements[n].id : n \in DOMAIN elements} |->
     LET element == elements[CHOOSE n \in DOMAIN elements : elements[n].id = pid]
     IN  [name |-> element.name,
          team_id |-> element.team,
          position |-> position_definitions(element.element_type)]]

\* process_team_data for every team: self.teams_data by team id
process_team_data(teams) ==
  [team_id \in {t.id : t \in teams} |->
     [name |-> (CHOOSE t \in teams : t.id = team_id).name]]

\* teams.get(team_id, {}).get("name"): None for a team that is not there
TeamName(teams, team_id) ==
  IF team_id \in DOMAIN teams THEN teams[team_id].name ELSE "None"

\* apply_player_exclusions: whether exclusion_reason is set for a player,
\* with the teams_data it reads
exclusion_reason(pid, player_info, teams, cfg) ==
  IF pid \in cfg.EXCLUDED_PLAYERS_BY_ID THEN TRUE
  ELSE IF player_info.name \in cfg.EXCLUDED_PLAYERS_BY_NAME THEN TRUE
  ELSE \E rule \in cfg.EXCLUDED_PLAYERS_BY_TEAM_AND_POSITION :
         /\ TeamName(teams, player_info.team_id) = Get(rule, "team")
         /\ player_info.position = Get(rule, "position")

\* apply_player_exclusions: players_to_keep
apply_player_exclusions(players, teams, cfg) ==
  [pid \in {q \in DOMAIN players : ~exclusion_reason(q, players[q], teams, cfg)} |->
     players[pid]]

\* the predictor leaves the optimizer and the cache alone
PredictorOnly == UNCHANGED <<optimizer_vars, cache_vars, player_week>>

\* FPLPredictor.__init__ up to the call of _fetch_fpl_data: empty data
\* structures; static is what fetch_api_data will return
PredictorInit ==
  /\ static_data \in StaticDataInputs
  /\ exclusions \in ExclusionInputs
  /\ players_data = EmptyDict
  /\ teams_data = EmptyDict
  /\ all_players_xp_calculated_data = <<>>
  /\ predictor = "constructing"

\* _fetch_fpl_data on a response with players and teams: the players are
\* processed, the exclusions are applied, then the teams are processed
FetchFplData ==
  /\ predictor = "constructing"
  /\ "teams" \in DOMAIN static_data
  /\ players_data' = apply_player_exclusions(process_player_data(static_data.elements),
                                             teams_data, exclusions)
  /\ teams_data' = process_team_data(static_data.teams)
  /\ predictor' = "fetched"
  /\ UNCHANGED <<static_data, exclusions, all_players_xp_calculated_data>>
  /\ PredictorOnly

\* _fetch_fpl_data on a response without teams: ValueError after the
\* players were processed; the data structures are reset and __init__ raises
FetchFplDataInvalid ==
  /\ predictor = "constructing"
  /\ "teams" \notin DOMAIN static_data
  /\ players_data' = EmptyDict
  /\ teams_data' = EmptyDict
  /\ predictor' = "ValueError"
  /\ UNCHANGED <<static_data, exclusions, all_players_xp_calculated_data>>
  /\ PredictorOnly

\* the entry _calculate_all_players_xp appends for a player
OptimizerEntry(player_info) ==
  [name |-> player_info.name,
   team |-> IF player_info.team_id \in DOMAIN teams_data
            THEN teams_data[player_info.team_id].name ELSE "Unknown Team",
   position |-> player_info.position]

\* the ids of players_data in the order of the dict, which is the order of
\* the response
PlayerIds ==
  LET ids == [n \in DOMAIN static_data.elements |-> static_data.elements[n].id]
      kept(pid) == pid \in DOMAIN players_data
  IN  SelectSeq(ids, kept)

\* _calculate_all_players_xp: one entry per player of players_data; with it
\* __init__ returns, and get_players_for_optimizer returns the list
CalculateAllPlayersXp ==
  /\ predictor = "fetched"
  /\ all_players_xp_calculated_data' =
       [n \in DOMAIN PlayerIds |-> OptimizerEntry(players_data[PlayerIds[n]])]
  /\ predictor' = "ready"
  /\ UNCHANGED <<static_data, exclusions, players_data, teams_data>>
  /\ PredictorOnly

NextPredictor ==
  \/ FetchFplData
  \/ FetchFplDataInvalid
  \/ CalculateAllPlayersXp

\* a new FPLPredictor next to an optimizer and a cache that stay as built
InitPredictor ==
  /\ Construct([columns |-> RequiredColumns \cup {"id"}, gameweeks |-> DataGameweeks],
               DefaultConfig)
  /\ NoCache
  /\ PredictorInit
  /\ NoPlayerWeek

SpecPredictor == InitPredictor /\ [][NextPredictor]_vars

(***************************************************************************)
(* Every feasible assignment of a problem, not only the optimal ones: what *)
(* the backend may hold when it stops anywhere in its search.  The values  *)
(* are those of the constraints of solve, none is left to the objective.   *)
(***************************************************************************)
\* the line-ups of squad S in gameweek w that the constraints allow under
\* the chip values bb and tc, each with its auxiliary variables
FeasibleLineups(w, bb, tc, S) ==
  UNION {UNION {{[starting_xi |-> X, captain |-> C,
                  is_bench |-> [i \in Players |-> ba[i][1]],
                  bench_boost_points |-> [i \in Players |-> ba[i][2]],
                  triple_captain_bonus |-> ca] :
                   ba \in PerPlayer(LAMBDA i : BenchAux[w, bb, In(i, S), In(i, X), i]),
                   ca \in PerPlayer(LAMBDA i : CaptainAux[w, tc, In(i, C), i])} :
                C \in {D \in CaptainCandidates : Captain(X, D)}} :
         X \in StartingXIs[S]}

\* the values of player_vars and of the chip variables, with no transfers,
\* that the constraints of a one-gameweek problem allow
FeasibleChoices(a) == {k \in Skeletons(a) : SkeletonCost(a, k) >= 0}

\* the line-ups the constraints allow with such a choice
ChoiceLineups(sk) ==
  FeasibleLineups(0, sk.use_bench_boost[0], sk.use_triple_captain[0],
                  sk.player_vars[0])

\* the feasible assignments with choice sk and line-up f: one per ledger
LineupAssignments(sk, f) ==
  Assignments(1, sk, [w \in Weeks(1) |-> {f}], LedgerTable[1][sk.transfers_made])

\* the largest objective value of a feasible assignment
BestObjective(a) ==
  Max(UNION {UNION {{Objective(1, v) : v \in LineupAssignments(sk, f)} :
                      f \in ChoiceLineups(sk)} :
               sk \in FeasibleChoices(a)})

\* arguments whose feasible assignments can be listed: one gameweek, the
\* budget of the cheapest squad, and an allowance of one for each chip
FeasibleArgs ==
  {[budget |-> 800, max_players_per_team |-> 2,
    chip_allowances |-> [bench_boost |-> 1, triple_captain |-> 1],
    num_gameweeks |-> 1]}

\* solve is called for the first time on the optimizer
FirstCall == problem.status = "None"

\* the first call of solve, with the backend stopping on any feasible
\* assignment; the status is one other than "Optimal" as in SolveStopped
SolveStoppedAnywhere(a) ==
  /\ FirstCall
  /\ Call(a)
  /\ HorizonCovered(a)
  /\ \E sk \in FeasibleChoices(ProblemInput(a, enforced_player_indices,
                                            enforced_team_pos_requirements)) :
       \E f \in ChoiceLineups(sk) : \E v \in LineupAssignments(sk, f) :
         /\ problem' = [status |-> "Not Solved", args |-> {a}, values |-> {v}]
         /\ backend' = "returned"
         /\ Reset

\* the first call of solve, with the backend proving an optimum
SolveOptimalAmongAll(a) ==
  /\ FirstCall
  /\ Call(a)
  /\ HorizonCovered(a)
  /\ \E pin \in {ProblemInput(a, enforced_player_indices,
                              enforced_team_pos_requirements)} :
       \E best \in {BestObjective(pin)} : \E sk \in FeasibleChoices(pin) :
         \E f \in ChoiceLineups(sk) : \E v \in LineupAssignments(sk, f) :
           /\ Objective(1, v) = best
           /\ problem' = [status |-> "Optimal", args |-> {a}, values |-> {v}]
           /\ backend' = "returned"
           /\ Extract(a, v)

NextFeasible ==
  \E a \in FeasibleArgs : SolveStoppedAnywhere(a) \/ SolveOptimalAmongAll(a)

SpecFeasible == Init /\ [][NextFeasible]_vars

\* arguments with two gameweeks, the shortest horizon with transfers
TransferArgs == {ta \in SolveArgs : ta.num_gameweeks = 2}

\* the first call of solve over two gameweeks, with the backend stopping
\* on a feasible assignment: any feasible choice of squads, chips,
\* transfer variables and ledger, completed with the best line-ups of its
\* squads, which the constraints on transfers do not read
SolveStoppedOnSquads(a) ==
  /\ FirstCall
  /\ Call(a)
  /\ HorizonCovered(a)
  /\ \E p \in FeasibleSkeletons(ProblemInput(a, enforced_player_indices,
                                             enforced_team_pos_requirements)) :
       \E v \in Assignments(a.num_gameweeks, p[2],
                            [w \in Weeks(a.num_gameweeks) |->
                               BestWeek[w, p[2].use_bench_boost[w],
                                        p[2].use_triple_captain[w],
                                        p[2].player_vars[w]].lineups],
                            LedgerTable[a.num_gameweeks][p[2].transfers_made]) :
         /\ problem' = [status |-> "Not Solved", args |-> {a}, values |-> {v}]
         /\ backend' = "returned"
         /\ Reset

NextTransfers == \E a \in TransferArgs : SolveStoppedOnSquads(a)

SpecTransfers == Init /\ [][NextTransfers]_vars

(***************************************************************************)
(* The linearisation constraints of the chips on their own: the variables  *)
(* of one player i in one gameweek w (player_vars[i][w],                   *)
(* starting_xi_vars[i][w], captain_var[i][w]), the chip variables of the   *)
(* gameweek, and the projected points of the player there, which may be    *)
(* negative (calculate_xp_for_player does not clip its result).            *)
(***************************************************************************)
\* the largest loss a player is projected to make
MaxLoss == 2

\* the values of expected_points_by_gw[gw_actual]
PlayerXpInputs == (0 - MaxLoss)..MaxBonus

\* values of the binary variables and projected points, before the
\* constraints IsBench_*, BenchBoost_Contr_* and TripleCaptain_Contr_* of
\* the player and the gameweek are looked at
PlayerWeekInit ==
  \E tv \in PlayerXpInputs : \E ts \in {0, 1} : \E tx \in {0, 1} :
    \E tcap \in {0, 1} : \E tbb \in {0, 1} : \E ttc \in {0, 1} :
      player_week = [status |-> "candidate", player_xp |-> tv, player_var |-> ts,
                     starting_xi_var |-> tx, captain_var |-> tcap,
                     use_bench_boost |-> tbb, use_triple_captain |-> ttc,
                     is_bench_player |-> 0, actual_bench_boost_points |-> 0,
                     actual_triple_captain_bonus |-> 0]

\* the values of is_bench_player, actual_bench_boost_points and
\* actual_triple_captain_bonus the constraints allow for the candidate pw
Linearizations(pw) ==
  {aux \in [is_bench_player : IsBench(pw.player_var, pw.starting_xi_var),
            actual_bench_boost_points : 0..MaxBonus,
            actual_triple_captain_bonus : 0..MaxBonus] :
     /\ aux.actual_bench_boost_points
          \in BonusContr(pw.player_xp, aux.is_bench_player, pw.use_bench_boost)
     /\ aux.actual_triple_captain_bonus
          \in BonusContr(pw.player_xp, pw.captain_var, pw.use_triple_captain)}

\* the constraints can be satisfied: the candidate is part of a feasible
\* assignment of the three auxiliary variables
LinearizationFeasible ==
  /\ player_week.status = "candidate"
  /\ \E aux \in Linearizations(player_week) :
       player_week' =
         [player_week EXCEPT
            !.status = "feasible",
            !.is_bench_player = aux.is_bench_player,
            !.actual_bench_boost_points = aux.actual_bench_boost_points,
            !.actual_triple_captain_bonus = aux.actual_triple_captain_bonus]
  /\ UNCHANGED <<optimizer_vars, cache_vars, predictor_vars>>

\* the constraints cannot be satisfied with the candidate
LinearizationInfeasible ==
  /\ player_week.status = "candidate"
  /\ Linearizations(player_week) = {}
  /\ player_week' = [player_week EXCEPT !.status = "infeasible"]
  /\ UNCHANGED <<optimizer_vars, cache_vars, predictor_vars>>

NextLinearization == LinearizationFeasible \/ LinearizationInfeasible

InitLinearization ==
  /\ Construct([columns |-> RequiredColumns \cup {"id"}, gameweeks |-> DataGameweeks],
               DefaultConfig)
  /\ NoCache
  /\ NoPredictor
  /\ PlayerWeekInit

SpecLinearization == InitLinearization /\ [][NextLinearization]_vars

(***************************************************************************)
(* The state as the claims read it.                                        *)
(***************************************************************************)
\* the last call of solve returned True
Accepted == returned = "True"

\* the squad recorded for a key of the roster history
HistorySquad(k) == DOMAIN selected_squad_history[k].squad

\* the starters and the captains recorded for a key of the roster history
HistoryStarters(k) ==
  {i \in HistorySquad(k) : selected_squad_history[k].squad[i].is_starter}

HistoryCaptains(k) ==
  {i \in HistorySquad(k) : selected_squad_history[k].squad[i].is_captain}

\* the entry of the roster history for gameweek index w
HistoryWeek(w) == selected_squad_history[GWKey(gw_actual(w))]

\* the result state is the reset one
ResultStateIsReset ==
  /\ DOMAIN selected_squad_history = {}
  /\ total_cost = 0
  /\ total_expected_points = 0
  /\ total_transfer_hits = 0
  /\ used_chips.assigned
  /\ DOMAIN used_chips.chips = {}

\* free-transfer balance f admits k transfers paid for with h hits
LedgerAdmits(f, k, h) ==
  \E ft \in FreeTransferRange :
    /\ FreeTransfersCalc(ft, f, k)
    /\ TransferHitsCalc(h, k, f)

(***************************************************************************)
(* C1.  Squad continuity: after a successful solve, for every gameweek     *)
(* index w >= 1 and every player p, squad[p,w] = squad[p,w-1]              *)
(* - transfer_out[p,w] + transfer_in[p,w]; the squad recorded for week w   *)
(* is the one of week w-1 without the players transferred out and with     *)
(* the players transferred in.                                             *)
(***************************************************************************)
C1_SquadContinuity ==
  Accepted =>
    \A a \in problem.args : \A v \in problem.values :
      \A w \in 1..(a.num_gameweeks - 1) :
        /\ \A p \in Players :
             In(p, HistorySquad(GWKey(gw_actual(w))))
               = In(p, HistorySquad(GWKey(gw_actual(w - 1))))
                 - In(p, v.transfer_out_vars[w]) + In(p, v.transfer_in_vars[w])
        /\ HistorySquad(GWKey(gw_actual(w)))
             = (HistorySquad(GWKey(gw_actual(w - 1))) \ v.transfer_out_vars[w])
               \cup v.transfer_in_vars[w]

\* a successful solve that transfers two players out and two in
C1_Witness ==
  /\ Accepted
  /\ \E v \in problem.values : \E w \in DOMAIN v.transfers_made :
       /\ Count(v.transfer_out_vars[w]) = 2
       /\ Count(v.transfer_in_vars[w]) = 2
       /\ HistorySquad(GWKey(gw_actual(w))) # HistorySquad(GWKey(gw_actual(w - 1)))

(***************************************************************************)
(* C2.  After a successful solve, for every w >= 1 the hits recorded for   *)
(* week w equal max(0, transfers_made[w] - free_transfers[w-1]), where     *)
(* free_transfers[w-1] is the solved balance.                              *)
(***************************************************************************)
C2_HitsAreExact ==
  Accepted =>
    \A a \in problem.args : \A v \in problem.values :
      \A w \in 1..(a.num_gameweeks - 1) :
        /\ HistoryWeek(w).transfer_hits
             = Max({0, v.transfers_made[w] - v.free_transfers_available[w - 1]})
        /\ HistoryWeek(w).transfer_hits
             = Max({0, HistoryWeek(w).transfers_in_count
                       - HistoryWeek(w - 1).free_transfers_available_next_gw})

\* two transfers with one free transfer available: one hit
C2_Witness ==
  /\ Accepted
  /\ \E v \in problem.values : \E w \in DOMAIN v.transfers_made :
       /\ v.transfers_made[w] = 2
       /\ v.free_transfers_available[w - 1] = 1
       /\ HistoryWeek(w).transfer_hits = 1
       /\ total_transfer_hits = 1

(***************************************************************************)
(* C3.  As claimed: for every w >= 1, every balance f =                    *)
(* free_transfers[w-1] of an accepted solution and every transfer count k  *)
(* with f < k <= 15, the constraints on the free transfers and the hits    *)
(* admit transfers_made[w] = k with hits[w] = k - f.                       *)
(***************************************************************************)
C3_ExcessTransfersAdmissible ==
  Accepted =>
    \A a \in problem.args : \A v \in problem.values :
      \A w \in 1..(a.num_gameweeks - 1) :
        \A k \in (v.free_transfers_available[w - 1] + 1)..SquadSize :
          LedgerAdmits(v.free_transfers_available[w - 1], k,
                       k - v.free_transfers_available[w - 1])

(***************************************************************************)
(* C4.  After a successful solve, for every gameweek index w,              *)
(* 0 <= free_transfers[w] <= MAX_FREE_TRANSFERS_SAVED + 1, and             *)
(* free_transfers[0] = INITIAL_FREE_TRANSFERS.                             *)
(***************************************************************************)
C4_FreeTransferBounds ==
  Accepted =>
    \A a \in problem.args : \A v \in problem.values :
      /\ \A w \in Weeks(a.num_gameweeks) :
           /\ 0 <= v.free_transfers_available[w]
           /\ v.free_transfers_available[w] <= MAX_FREE_TRANSFERS_SAVED + 1
      /\ v.free_transfers_available[0] = INITIAL_FREE_TRANSFERS

\* a successful solve over two gameweeks whose balance changes after week 0
C4_Witness ==
  /\ Accepted
  /\ \E a \in problem.args : \E v \in problem.values :
       /\ a.num_gameweeks >= 2
       /\ v.free_transfers_available[0] = INITIAL_FREE_TRANSFERS
       /\ v.free_transfers_available[1] # v.free_transfers_available[0]

(***************************************************************************)
(* C5.  Whenever the backend reports a status other than "Optimal", solve  *)
(* returns False and the roster history is empty, total_cost,              *)
(* total_expected_points and total_transfer_hits are 0 and used_chips is   *)
(* empty, whatever the state was before the call.                          *)
(***************************************************************************)
C5_FailureResets ==
  (backend = "returned" /\ problem.status # "Optimal") =>
    /\ returned = "False"
    /\ ResultStateIsReset

\* the backend reports an infeasible problem: budget below the cheapest squad
C5_Witness ==
  /\ backend = "returned"
  /\ problem.status = "Infeasible"
  /\ \E a \in problem.args :
       ~TotalBudget(CHOOSE S \in PositionSquads :
                      \A T \in PositionSquads :
                        lpSum([i \in Players |-> player_data[i].cost], S)
                          <= lpSum([i \in Players |-> player_data[i].cost], T),
                    a.budget)
  /\ returned = "False"

(***************************************************************************)
(* C6.  As claimed: if the backend raises an exception, solve returns      *)
(* False and the result state is reset as in the infeasible case: empty    *)
(* roster history, zero totals and hits, empty chip map.                   *)
(***************************************************************************)
C6_ExceptionResets ==
  backend = "raised" =>
    /\ returned = "False"
    /\ ResultStateIsReset

C8_SquadShape ==
  \A k \in DOMAIN selected_squad_history :
    /\ Cardinality(HistorySquad(k)) = 15
    /\ Cardinality({i \in HistorySquad(k) : player_data[i].position = "GK"}) = 2
    /\ Cardinality({i \in HistorySquad(k) : player_data[i].position = "DEF"}) = 5
    /\ Cardinality({i \in HistorySquad(k) : player_data[i].position = "MID"}) = 5
    /\ Cardinality({i \in HistorySquad(k) : player_data[i].position = "FWD"}) = 3

\* a roster history of two gameweeks with different squads
C8_Witness ==
  /\ Accepted
  /\ \E k \in DOMAIN selected_squad_history :
       \E l \in DOMAIN selected_squad_history :
         /\ HistorySquad(k) # HistorySquad(l)
         /\ Cardinality(HistorySquad(k)) = 15
         /\ Cardinality(HistorySquad(l)) = 15

(***************************************************************************)
(* C9.  In every gameweek of the roster history the line-up is valid:      *)
(* exactly 11 starters, all of that week's squad, exactly 1 starting GK,   *)
(* at least 3 DEF, 2 MID and 1 FWD among the starters, and exactly one     *)
(* captain, who is a starter.                                              *)
(***************************************************************************)
C9_ValidLineup ==
  /\ \A k \in DOMAIN selected_squad_history :
       /\ Cardinality(HistoryStarters(k)) = 11
       /\ HistoryStarters(k) \subseteq HistorySquad(k)
       /\ Cardinality({i \in HistoryStarters(k) : player_data[i].position = "GK"}) = 1
       /\ Cardinality({i \in HistoryStarters(k) : player_data[i].position = "DEF"}) >= 3
       /\ Cardinality({i \in HistoryStarters(k) : player_data[i].position = "MID"}) >= 2
       /\ Cardinality({i \in HistoryStarters(k) : player_data[i].position = "FWD"}) >= 1
       /\ Cardinality(HistoryCaptains(k)) = 1
       /\ HistoryCaptains(k) \subseteq HistoryStarters(k)
  /\ Accepted =>
       \A a \in problem.args : \A v \in problem.values :
         \A w \in Weeks(a.num_gameweeks) :
           /\ v.captain_var[w] \subseteq v.starting_xi_vars[w]
           /\ v.starting_xi_vars[w] \subseteq v.player_vars[w]
           /\ HistoryStarters(GWKey(gw_actual(w))) = v.starting_xi_vars[w]
           /\ HistoryCaptains(GWKey(gw_actual(w))) = v.captain_var[w]

\* a roster history whose line-up leaves four squad players on the bench
C9_Witness ==
  /\ Accepted
  /\ \E k \in DOMAIN selected_squad_history :
       /\ Cardinality(HistorySquad(k) \ HistoryStarters(k)) = 4
       /\ Cardinality(HistoryStarters(k) \ HistoryCaptains(k)) = 10

(***************************************************************************)
(* C10.  In every gameweek of the roster history of a successful solve     *)
(* the costs of the squad players sum to at most the budget passed to      *)
(* solve, also in the weeks reached through transfers.                     *)
(***************************************************************************)
C10_WithinBudget ==
  Accepted =>
    \A a \in problem.args :
      \A k \in DOMAIN selected_squad_history :
        /\ selected_squad_history[k].total_cost <= a.budget
        /\ lpSum([i \in Players |-> player_data[i].cost], HistorySquad(k))
             <= a.budget

\* a week reached through a transfer, under a budget that excludes the
\* squad with the two most expensive forwards
C10_Witness ==
  /\ Accepted
  /\ \E a \in problem.args : \E w \in 1..(a.num_gameweeks - 1) :
       /\ HistoryWeek(w).transfers_in_count >= 1
       /\ HistoryWeek(w).total_cost <= a.budget
       /\ \E S \in PositionSquads : ~TotalBudget(S, a.budget)

(***************************************************************************)
(* C11.  In every gameweek of the roster history of a successful solve no  *)
(* team has more than max_players_per_team players in the squad.           *)
(***************************************************************************)
C11_TeamLimit ==
  Accepted =>
    \A a \in problem.args : \A k \in DOMAIN selected_squad_history :
      \A team \in Teams :
        Cardinality({i \in HistorySquad(k) : player_data[i].team = team})
          <= a.max_players_per_team

\* a successful solve under a limit of 2 that a squad within the budget
\* would exceed, with a team that has exactly 2 players in the squad
C11_Witness ==
  /\ Accepted
  /\ \E a \in problem.args :
       /\ a.max_players_per_team = 2
       /\ \E S \in PositionSquads :
            /\ TotalBudget(S, a.budget)
            /\ ~MaxPlayersFromTeam(S, a.max_players_per_team)
       /\ \E k \in DOMAIN selected_squad_history : \E team \in Teams :
            Cardinality({i \in HistorySquad(k) : player_data[i].team = team}) = 2

(***************************************************************************)
(* C12.  Chip usage is bounded over the horizon: after a successful solve  *)
(* the number of gameweeks with bench boost active is at most the bench    *)
(* boost allowance and the number with triple captain active at most the   *)
(* triple captain allowance; with an allowance of 0, or the key absent,    *)
(* the chip is active in no gameweek and its bonus total is 0 in every     *)
(* weekly record.                                                          *)
(***************************************************************************)
C12_ChipUsageBounded ==
  Accepted =>
    \A a \in problem.args :
      /\ Cardinality({k \in DOMAIN selected_squad_history :
                        selected_squad_history[k].bench_boost_used})
           <= ChipAllowance(a.chip_allowances, "bench_boost")
      /\ Cardinality({k \in DOMAIN selected_squad_history :
                        selected_squad_history[k].triple_captain_used})
           <= ChipAllowance(a.chip_allowances, "triple_captain")
      /\ Cardinality({k \in DOMAIN used_chips.chips :
                        used_chips.chips[k].bench_boost})
           <= ChipAllowance(a.chip_allowances, "bench_boost")
      /\ Cardinality({k \in DOMAIN used_chips.chips :
                        used_chips.chips[k].triple_captain})
           <= ChipAllowance(a.chip_allowances, "triple_captain")
      /\ ChipAllowance(a.chip_allowances, "bench_boost") = 0 =>
           \A k \in DOMAIN selected_squad_history :
             /\ ~selected_squad_history[k].bench_boost_used
             /\ selected_squad_history[k].total_bench_boost_points = 0
      /\ ChipAllowance(a.chip_allowances, "triple_captain") = 0 =>
           \A k \in DOMAIN selected_squad_history :
             /\ ~selected_squad_history[k].triple_captain_used
             /\ selected_squad_history[k].total_triple_captain_bonus = 0

\* a horizon of two gameweeks with a triple captain allowance of 1 and no
\* bench boost key: the triple captain is active in one gameweek, not both
C12_Witness ==
  /\ Accepted
  /\ \E a \in problem.args :
       /\ a.num_gameweeks = 2
       /\ ChipAllowance(a.chip_allowances, "triple_captain") = 1
       /\ "bench_boost" \notin DOMAIN a.chip_allowances
  /\ Cardinality({k \in DOMAIN selected_squad_history :
                    selected_squad_history[k].triple_captain_used}) = 1
  /\ \E k \in DOMAIN selected_squad_history :
       /\ ~selected_squad_history[k].triple_captain_used
       /\ selected_squad_history[k].total_triple_captain_bonus = 0

(***************************************************************************)
(* C13.  After a successful solve total_expected_points equals, summed     *)
(* over the gameweeks, the projected points of the 11 starters plus the    *)
(* captain's projected points once more plus the week's bench boost bonus  *)
(* plus the week's triple captain bonus (the captain's points once more    *)
(* when the chip is active), minus POINTS_PER_HIT times the total hits.    *)
(***************************************************************************)
C13_ObjectiveValue ==
  Accepted =>
    \A a \in problem.args :
      /\ total_expected_points
           = lpSum([w \in Weeks(a.num_gameweeks) |->
                      lpSum(xp_gw(w), HistoryStarters(GWKey(gw_actual(w))))
                      + lpSum(xp_gw(w), HistoryCaptains(GWKey(gw_actual(w))))
                      + HistoryWeek(w).total_bench_boost_points
                      + HistoryWeek(w).total_triple_captain_bonus],
                   Weeks(a.num_gameweeks))
             - POINTS_PER_HIT * total_transfer_hits
      /\ \A w \in Weeks(a.num_gameweeks) :
           /\ HistoryWeek(w).expected_points_from_xi
                = lpSum(xp_gw(w), HistoryStarters(GWKey(gw_actual(w))))
           /\ HistoryWeek(w).total_triple_captain_bonus
                = IF HistoryWeek(w).triple_captain_used
                  THEN lpSum(xp_gw(w), HistoryCaptains(GWKey(gw_actual(w))))
                  ELSE 0

\* two gameweeks with a hit taken and the triple captain active in one
C13_Witness ==
  /\ Accepted
  /\ total_transfer_hits >= 1
  /\ \E k \in DOMAIN selected_squad_history :
       /\ selected_squad_history[k].triple_captain_used
       /\ selected_squad_history[k].total_triple_captain_bonus > 0
  /\ \E k \in DOMAIN selected_squad_history :
       ~selected_squad_history[k].triple_captain_used

(***************************************************************************)
(* C14.  In the optimizer variant, after a successful solve in which the   *)
(* triple captain is not used, total_expected_points equals, summed over   *)
(* the gameweeks, the projected points of the 11 starters plus the         *)
(* captain's projected points once more plus the bench boost bonus, minus  *)
(* POINTS_PER_HIT times the total hits; and making a starter with other    *)
(* projected points the captain changes the value of the objective.        *)
(***************************************************************************)
C14_VariantCaptainCountedTwice ==
  (Accepted /\ \A k \in DOMAIN selected_squad_history :
                 ~selected_squad_history[k].triple_captain_used) =>
    \A a \in problem.args : \A v \in problem.values :
      /\ total_expected_points
           = lpSum([w \in Weeks(a.num_gameweeks) |->
                      lpSum(xp_gw(w), HistoryStarters(GWKey(gw_actual(w))))
                      + lpSum(xp_gw(w), HistoryCaptains(GWKey(gw_actual(w))))
                      + HistoryWeek(w).total_bench_boost_points],
                   Weeks(a.num_gameweeks))
             - POINTS_PER_HIT * total_transfer_hits
      /\ \A w \in Weeks(a.num_gameweeks) :
           \A i \in HistoryCaptains(GWKey(gw_actual(w))) :
             \A j \in HistoryStarters(GWKey(gw_actual(w))) :
               xp_gw(w)[j] # xp_gw(w)[i] =>
                 VariantObjective(a.num_gameweeks,
                                  [v EXCEPT !.captain_var[w] = {j}])
                   # total_expected_points

(***************************************************************************)
(* C19.  After a successful solve total_cost equals the total_cost of the  *)
(* final gameweek's record, total_transfer_hits the sum of transfer_hits   *)
(* over the weekly records, and total_expected_points the objective value  *)
(* of the solved model.                                                    *)
(***************************************************************************)
C19_TotalsAgree ==
  Accepted =>
    \A a \in problem.args : \A v \in problem.values :
      /\ total_cost = HistoryWeek(a.num_gameweeks - 1).total_cost
      /\ total_transfer_hits
           = lpSum([w \in Weeks(a.num_gameweeks) |-> HistoryWeek(w).transfer_hits],
                   Weeks(a.num_gameweeks))
      /\ total_expected_points = Objective(a.num_gameweeks, v)

\* two gameweeks whose squads cost differently, with a hit taken
C19_Witness ==
  /\ Accepted
  /\ \E a \in problem.args :
       /\ a.num_gameweeks = 2
       /\ HistoryWeek(0).total_cost # HistoryWeek(1).total_cost
       /\ total_cost = HistoryWeek(1).total_cost
       /\ HistoryWeek(1).transfer_hits = 1
       /\ total_transfer_hits = 1

(***************************************************************************)
(* C20.  As claimed: whenever solve returns True the roster history holds  *)
(* exactly N records, one for each w in 0..N-1 keyed by the gameweek       *)
(* base+w, and used_chips has the same N keys; whenever solve returns      *)
(* False the history holds no record.                                      *)
(***************************************************************************)
C20_HistoryNeverPartial ==
  /\ Accepted =>
       \A a \in problem.args :
         /\ DOMAIN selected_squad_history
              = {GWKey(current_gameweek_number_start + w) :
                   w \in Weeks(a.num_gameweeks)}
         /\ Cardinality(DOMAIN selected_squad_history) = a.num_gameweeks
         /\ DOMAIN used_chips.chips = DOMAIN selected_squad_history
  /\ returned = "False" => DOMAIN selected_squad_history = {}

(***************************************************************************)
(* C15.  A call of solve with the arguments of the call before it, both    *)
(* run to completion by the backend (an optimum proven or infeasibility    *)
(* shown), gives the same return value and the same total_expected_points; *)
(* as a call does not read what an earlier call left, the same holds       *)
(* between calls on fresh optimizers.                                      *)
(***************************************************************************)
\* the backend ran to completion in the last call
Completed ==
  /\ backend = "returned"
  /\ problem.status \in {"Optimal", "Infeasible"}

C15_SameArgumentsSameResult ==
  [][(Completed /\ Completed' /\ problem'.args = problem.args) =>
       /\ returned' = returned
       /\ total_expected_points' = total_expected_points]_vars

\* a second successful call with the arguments of the first, over two
\* gameweeks with a transfer
C15_Witness ==
  /\ repeated
  /\ Completed
  /\ Accepted
  /\ \E a \in problem.args : a.num_gameweeks = 2
  /\ total_transfer_hits = 1

(***************************************************************************)
(* The constructor and the inputs as the claims read them.                 *)
(***************************************************************************)
\* the players a rule of ENFORCED_PLAYERS_BY_ID or ENFORCED_PLAYERS_BY_NAME
\* matches
MatchedPlayers ==
  {i \in Players : \/ player_id(i) \in config.ENFORCED_PLAYERS_BY_ID
                   \/ player_name(i) \in config.ENFORCED_PLAYERS_BY_NAME}

\* the players a rule of ENFORCED_PLAYERS_BY_TEAM_AND_POSITION matches
MatchedBy(requirement) ==
  {i \in Players : /\ "team" \in DOMAIN requirement
                   /\ "position" \in DOMAIN requirement
                   /\ player_data[i].team = requirement.team
                   /\ player_data[i].position = requirement.position}

\* some rule of the configuration matches no player
SomeRuleMisses ==
  \/ \E pid \in config.ENFORCED_PLAYERS_BY_ID :
       \A i \in Players : player_id(i) # pid
  \/ \E pname \in config.ENFORCED_PLAYERS_BY_NAME :
       \A i \in Players : player_name(i) # pname
  \/ \E r \in config.ENFORCED_PLAYERS_BY_TEAM_AND_POSITION : MatchedBy(r) = {}

\* the squads that hold every matched player and one player of every
\* matched team and position
HoldsEnforced(S) ==
  /\ MatchedPlayers \subseteq S
  /\ \A r \in config.ENFORCED_PLAYERS_BY_TEAM_AND_POSITION :
       MatchedBy(r) # {} => S \cap MatchedBy(r) # {}

(***************************************************************************)
(* C16.  As claimed: every input-validation failure, a required column     *)
(* missing from the player data or a player whose expected_points_by_gw    *)
(* lacks a gameweek of the requested horizon, raises an error to the       *)
(* caller before any decision variable is created, and is never treated    *)
(* as zero points.                                                         *)
(***************************************************************************)
C16_ValidationFailsFast ==
  /\ ~(RequiredColumns \subseteq columns) =>
       /\ constructor = "ValueError"
       /\ ~decision_variables
  /\ \A a \in problem.args :
       (constructor = "returned" /\ a.num_gameweeks > xp_gameweeks) =>
         /\ returned = "KeyError"
         /\ ~decision_variables

(***************************************************************************)
(* C17.  As claimed: an enforcement rule that matches no player is         *)
(* non-fatal whatever columns the player data has beyond the five          *)
(* required ones: no exception is raised in the constructor or in solve,   *)
(* no constraint is added for it, and the optimization proceeds as if the  *)
(* rule were absent.                                                       *)
(***************************************************************************)
C17_RuleMissIsNonFatal ==
  (RequiredColumns \subseteq columns /\ SomeRuleMisses) =>
    /\ constructor = "returned"
    /\ enforced_player_indices = MatchedPlayers
    /\ \A r \in enforced_team_pos_requirements :
         TeamPosPlayers(r[1], r[2]) = {} =>
           \A S \in PositionSquads : EnforceOne(S, {r})
    /\ \A a \in problem.args :
         a.num_gameweeks <= xp_gameweeks => returned \in {"True", "False"}

C22_RollOverExact ==
  Accepted =>
    \A a \in problem.args : \A v \in problem.values :
      \A w \in 1..(a.num_gameweeks - 1) :
        /\ v.free_transfers_available[w]
             = Min({v.free_transfers_available[w - 1] - v.transfers_made[w] + 1,
                    MAX_FREE_TRANSFERS_SAVED + 1})
        /\ w < a.num_gameweeks - 1 =>
             HistoryWeek(w).free_transfers_available_next_gw
               = v.free_transfers_available[w]

(***************************************************************************)
(* C27.  After a successful solve the weekly figures add up to the horizon *)
(* total: the sum over the weekly records of expected_points_from_xi +     *)
(* total_bench_boost_points + total_triple_captain_bonus, minus            *)
(* POINTS_PER_HIT times total_transfer_hits, equals total_expected_points. *)
(***************************************************************************)
C27_WeeklyFiguresAddUp ==
  Accepted =>
    \A a \in problem.args :
      lpSum([w \in Weeks(a.num_gameweeks) |->
               HistoryWeek(w).expected_points_from_xi
               + HistoryWeek(w).total_bench_boost_points
               + HistoryWeek(w).total_triple_captain_bonus],
            Weeks(a.num_gameweeks))
        - POINTS_PER_HIT * total_transfer_hits
      = total_expected_points

(***************************************************************************)
(* C28.  In every weekly record of a successful solve the transfer         *)
(* bookkeeping is self-consistent: transfers_in_count equals               *)
(* transfers_out_count and the number of squad rows flagged transfer_in,   *)
(* no squad row is flagged transfer_out, and the record of gameweek index  *)
(* 0 has no transfers in, none out, no hits and no row flagged.            *)
(***************************************************************************)
C28_TransferBookkeeping ==
  Accepted =>
    /\ \A k \in DOMAIN selected_squad_history :
         /\ selected_squad_history[k].transfers_in_count
              = selected_squad_history[k].transfers_out_count
         /\ selected_squad_history[k].transfers_in_count
              = Cardinality({i \in HistorySquad(k) :
                               selected_squad_history[k].squad[i].transfer_in})
         /\ \A i \in HistorySquad(k) :
              ~selected_squad_history[k].squad[i].transfer_out
    /\ HistoryWeek(0).transfers_in_count = 0
    /\ HistoryWeek(0).transfers_out_count = 0
    /\ HistoryWeek(0).transfer_hits = 0
    /\ \A i \in HistorySquad(GWKey(gw_actual(0))) :
         ~HistoryWeek(0).squad[i].transfer_in

\* two gameweeks with players brought in for the second
C28_Witness ==
  /\ Accepted
  /\ \E k \in DOMAIN selected_squad_history :
       /\ selected_squad_history[k].transfers_in_count = 2
       /\ Cardinality({i \in HistorySquad(k) :
                         selected_squad_history[k].squad[i].transfer_in}) = 2

(***************************************************************************)
(* C25.  Cache freshness.  After any sequence of save_response,            *)
(* clear_cache and clock advances, get_cached_response(endpoint) returns   *)
(* the data most recently saved for the endpoint if and only if that save  *)
(* happened no more than cache_expiry ago and no clear_cache happened      *)
(* since; otherwise (never saved, expired, cleared, unreadable file) it    *)
(* returns None.  A call returns just that, and saving one endpoint does   *)
(* not change what another endpoint returns.                               *)
(***************************************************************************)
\* the endpoint has a save since the last clear that has not expired
Fresh(endpoint) ==
  \E s \in saved[endpoint] : clock - s.at <= cache_expiry

\* what the claim says get_cached_response(endpoint) returns
FreshData(endpoint) ==
  IF Fresh(endpoint) THEN {s.data : s \in saved[endpoint]} ELSE {}

C25_CacheFreshness ==
  /\ [](\A endpoint \in Endpoints : get_cached_response(endpoint) = FreshData(endpoint))
  /\ [][/\ \A endpoint \in Endpoints :
             GetCachedResponse(endpoint) => cached_response'.result = FreshData(endpoint)
        /\ \A endpoint \in Endpoints : \A data \in Responses :
             SaveResponse(endpoint, data) =>
               /\ get_cached_response(endpoint)' = {data}
               /\ \A other \in Endpoints \ {endpoint} :
                    get_cached_response(other)' = get_cached_response(other)]_vars

\* a call returned the data saved exactly cache_expiry ago while the save of
\* the other endpoint has expired
C25_Witness ==
  /\ cached_response.endpoint = "static"
  /\ cached_response.result # {}
  /\ \E s \in saved["static"] : clock - s.at = cache_expiry
  /\ \E s \in saved["fixtures"] : clock - s.at > cache_expiry
  /\ get_cached_response("fixtures") = {}

(***************************************************************************)
(* C24.  Player exclusions are applied before the optimizer sees the data: *)
(* once a new FPLPredictor is built, no player of the response that is     *)
(* excluded by id, by name, or by a rule of                                *)
(* EXCLUDED_PLAYERS_BY_TEAM_AND_POSITION whose team name and position are  *)
(* the player's, is in the list get_players_for_optimizer returns.         *)
(***************************************************************************)
\* the names in the list get_players_for_optimizer returns
OptimizerNames ==
  {all_players_xp_calculated_data[n].name : n \in DOMAIN all_players_xp_calculated_data}

\* the name of the team of an element in the response
ElementTeamName(element) ==
  (CHOOSE t \in static_data.teams : t.id = element.team).name

\* the elements of the response a team and position rule names
RuleMatches(element) ==
  \E rule \in exclusions.EXCLUDED_PLAYERS_BY_TEAM_AND_POSITION :
    /\ Get(rule, "team") = ElementTeamName(element)
    /\ Get(rule, "position") = position_definitions(element.element_type)

C24_ExclusionsApplied ==
  predictor = "ready" =>
    \A n \in DOMAIN static_data.elements :
      (\/ static_data.elements[n].id \in exclusions.EXCLUDED_PLAYERS_BY_ID
       \/ static_data.elements[n].name \in exclusions.EXCLUDED_PLAYERS_BY_NAME
       \/ RuleMatches(static_data.elements[n]))
        => static_data.elements[n].name \notin OptimizerNames

AssignmentWeeks(v) == DOMAIN v.player_vars
FlaggedBench(v, w) == {i \in Players : v.is_bench_player[w][i] = 1}

(***************************************************************************)
(* C21.  In every feasible assignment, optimal or not, and for every       *)
(* player and gameweek with non-negative projected points v, the           *)
(* bench-boost bonus variable is v when the player is on the bench and     *)
(* bench boost is active in the gameweek and 0 otherwise, and the          *)
(* triple-captain bonus variable is v when the player is captain and       *)
(* triple captain is active in the gameweek and 0 otherwise.               *)
(***************************************************************************)
C21_LinearizationExact ==
  \A v \in problem.values : \A w \in AssignmentWeeks(v) : \A i \in Players :
    xp_gw(w)[i] >= 0 =>
      /\ v.actual_bench_boost_points[w][i] =
           IF /\ i \in v.player_vars[w] \ v.starting_xi_vars[w]
              /\ v.use_bench_boost[w] = 1
           THEN xp_gw(w)[i] ELSE 0
      /\ v.actual_triple_captain_bonus[w][i] =
           IF i \in v.captain_var[w] /\ v.use_triple_captain[w] = 1
           THEN xp_gw(w)[i] ELSE 0

\* the backend stopped on an assignment that plays bench boost without
\* triple captain, with a bench player earning a bonus and a captain named
C21_Witness ==
  /\ problem.status = "Not Solved"
  /\ \E v \in problem.values :
       /\ v.use_bench_boost[0] = 1
       /\ v.use_triple_captain[0] = 0
       /\ v.captain_var[0] # {}
       /\ \E i \in v.player_vars[0] \ v.starting_xi_vars[0] :
            v.actual_bench_boost_points[0][i] > 0

(***************************************************************************)
(* C26.  In every feasible assignment and every gameweek, is_bench is 1    *)
(* exactly for the players in the squad and outside the starting XI, so    *)
(* that the bench has exactly four players, exactly one of them a          *)
(* goalkeeper.                                                             *)
(***************************************************************************)
C26_BenchIsSquadMinusXI ==
  \A v \in problem.values : \A w \in AssignmentWeeks(v) :
    /\ \A i \in Players : v.is_bench_player[w][i] \in {0, 1}
    /\ FlaggedBench(v, w) = v.player_vars[w] \ v.starting_xi_vars[w]
    /\ Count(FlaggedBench(v, w)) = 4
    /\ Count(InPosition(FlaggedBench(v, w), "GK")) = 1

\* the backend stopped on an assignment with a forward and a midfielder on
\* the bench and no chip played
C26_Witness ==
  /\ problem.status = "Not Solved"
  /\ \E v \in problem.values :
       /\ v.use_bench_boost[0] = 0
       /\ InPosition(FlaggedBench(v, 0), "FWD") # {}
       /\ InPosition(FlaggedBench(v, 0), "MID") # {}

(***************************************************************************)
(* C29.  The chips do not exclude each other: with an allowance of at      *)
(* least one for each chip, solve returns an assignment with bench boost   *)
(* and triple captain active in the same gameweek whenever that is the     *)
(* optimum, as it is for one gameweek with positive points on the bench    *)
(* and for the captain; the stored chip usage shows both.                  *)
(***************************************************************************)
C29_ChipsNotExclusive ==
  (/\ Accepted
   /\ \A a \in problem.args :
        /\ a.num_gameweeks = 1
        /\ ChipAllowance(a.chip_allowances, "bench_boost") >= 1
        /\ ChipAllowance(a.chip_allowances, "triple_captain") >= 1) =>
    /\ \A v \in problem.values :
         v.use_bench_boost[0] = 1 /\ v.use_triple_captain[0] = 1
    /\ used_chips.chips[GWKey(gw_actual(0))]
         = [bench_boost |-> TRUE, triple_captain |-> TRUE]

\* solve returned True with both chips played in the first gameweek
C29_Witness ==
  /\ Accepted
  /\ problem.status = "Optimal"
  /\ \E v \in problem.values :
       v.use_bench_boost[0] = 1 /\ v.use_triple_captain[0] = 1
  /\ used_chips.assigned
  /\ used_chips.chips[GWKey(gw_actual(0))].bench_boost
  /\ used_chips.chips[GWKey(gw_actual(0))].triple_captain

(***************************************************************************)
(* C23.  There are no phantom transfers: in every gameweek after the first *)
(* of a feasible assignment, the players transferred in are exactly those  *)
(* in the squad of the gameweek and not in the squad before, the players   *)
(* transferred out are exactly those in the squad before and not in the    *)
(* squad of the gameweek, no player is in both sets, the sets have the     *)
(* same size, and transfers_made is that size.                             *)
(***************************************************************************)
C23_NoPhantomTransfers ==
  \A v \in problem.values : \A w \in AssignmentWeeks(v) \ {0} :
    /\ v.transfer_in_vars[w] = v.player_vars[w] \ v.player_vars[w - 1]
    /\ v.transfer_out_vars[w] = v.player_vars[w - 1] \ v.player_vars[w]
    /\ v.transfer_in_vars[w] \cap v.transfer_out_vars[w] = {}
    /\ Count(v.transfer_in_vars[w]) = Count(v.transfer_out_vars[w])
    /\ v.transfers_made[w] = Count(v.transfer_in_vars[w])

\* the backend stopped on an assignment that changes two players of the
\* squad between the gameweeks
C23_Witness ==
  /\ problem.status = "Not Solved"
  /\ \E v \in problem.values :
       /\ 1 \in AssignmentWeeks(v)
       /\ v.transfers_made[1] = 2
       /\ Count(v.player_vars[1] \ v.player_vars[0]) = 2

====
